---------------------------- MODULE Spec2Model ----------------------------
(***************************************************************************)
(* Grade_Visualizer: the trajectory generators (paths.py) running on the   *)
(* process-wide numpy random source, the aggregator (analysis.py), the     *)
(* dashboard's simulation loop (app.py) and the console front-end          *)
(* (simulation.py).                                                        *)
(*                                                                         *)
(* Numbers.  A grade-point value is an integer number of thousandths       *)
(* (2.0 is 2000, 4.0 is 4000).  np.random.rand() yields a tenth r/10 with  *)
(* r in 0..9 and np.random.randn() a tenth z/10 with z in ZTable, a finite *)
(* sample of an unbounded distribution, so that                            *)
(* every product of the source (0.07 * rand(), 0.05 * randn(), ...) is a   *)
(* whole number of thousandths.  That is the view of the generators taken  *)
(* alone.  What the dashboard and the console compute (the trajectories    *)
(* they get from the generators, the what-if shift, the running average,   *)
(* the values compared with the category thresholds) is computed in        *)
(* binary64 floats, operation by operation, as Python does.                *)
(* So is every field but the count of what summarize_statistics returns.   *)
(*                                                                         *)
(* Random source.  The numpy global RandomState is a deterministic         *)
(* generator: seed(s) overwrites its whole state with a function of s, and *)
(* each draw advances the state and returns a function of it.  The model   *)
(* keeps exactly that, with a small linear congruential generator in the   *)
(* place of the Mersenne Twister.  At program start the source is seeded   *)
(* from OS entropy: any state.                                             *)
(***************************************************************************)
EXTENDS Integers, Sequences, FiniteSets, TLC

VARIABLES
    rng,      \* state of the global np.random source
    call,     \* the last generator call: arguments, outcome, result
    agg,      \* the last aggregator call: operation, input, result
    hashseed, \* the key of str hashing, drawn once when the process starts
    dash,     \* the dashboard: the last iteration of its simulation loop
    cli,      \* the console front-end: its position and what it has read
    thr       \* generator calls in progress, one record per thread

vars == <<rng, call, agg, hashseed, dash, cli, thr>>

\* what a front-end leaves alone while it is not running
others == <<hashseed, dash, cli, thr>>

None == "None"
\* the default "seed=None" of every generator: the unseeded call
NoSeed == -1

\* ------------------------------------------------------------------------
\* Bounds of the model
\* ------------------------------------------------------------------------
RngModulus == 64
MaxLen == 4

RngStates == 0 .. (RngModulus - 1)

\* the 13 generator functions of paths.py
Generators ==
    { "generate_balanced_growth", "generate_high_achiever",
      "generate_downfall_recovery", "generate_up_down",
      "generate_perfectionist", "generate_consistent_improvement",
      "generate_chaotic", "generate_late_bloomer", "generate_spike_plateau",
      "generate_senioritis", "generate_no_study", "generate_burnout",
      "generate_triumph_over_adversity" }

\* start values passed by the callers (0.0 .. 4.0), in thousandths
Starts == {0, 1500, 2000, 3000, 4000}
\* step counts, the invalid ones (< 1) included
StepCounts == {-1, 0, 1, 2, 5, 10}
\* seeds; NoSeed is the unseeded call
Seeds == {NoSeed, 3, 42}

\* ------------------------------------------------------------------------
\* The random source
\* ------------------------------------------------------------------------
Min(a, b) == IF a < b THEN a ELSE b
Max(a, b) == IF a > b THEN a ELSE b

\* np.random.seed(seed): the whole state becomes a function of the seed
SeedState(seed) == seed % RngModulus

\* one step of the generator
Advance(g) == (5 * g + 3) % RngModulus

\* a sample of the standard normal, in tenths.  The distribution has no
\* bound: the table reaches past 3.0 on both sides, and nothing may be
\* concluded from its largest entry.
ZTable == <<-40, -33, -15, -5, 0, 5, 15, 32, 40>>

\* np.random.rand(): [x |-> tenths in 0..9, g |-> the state after the draw]
rand(g) ==
    LET h == Advance(g) IN [x |-> (h * 10) \div RngModulus, g |-> h]

\* np.random.randn(): [x |-> tenths, g |-> the state after the draw]
randn(g) ==
    LET h == Advance(g) IN [x |-> ZTable[((h * Len(ZTable)) \div RngModulus) + 1], g |-> h]

\* "if seed is not None: np.random.seed(seed)"
SeedNoop(g, seed) == g
Seeding(g, seed) == IF seed # NoSeed THEN SeedState(seed) ELSE g

\* ------------------------------------------------------------------------
\* paths.py: the candidate next value of each generator at loop index i.
\* Each returns [nxt |-> candidate, g |-> source state after its draws,
\*               n |-> number of draws].
\* ------------------------------------------------------------------------
nxt_balanced_growth(prev, i, g) ==
    LET z == randn(g) IN [nxt |-> prev + (5 * z.x + 60), g |-> z.g, n |-> 1]

nxt_high_achiever(prev, i, g) ==
    LET z == randn(g) IN [nxt |-> prev + (10 * z.x + 90), g |-> z.g, n |-> 1]

\* the recovery starting one step late
nxt_downfall_recovery_late(prev, i, g) ==
    LET r == rand(g) IN
    [nxt |-> IF i < 5 THEN prev - 10 * r.x ELSE prev + 15 * r.x,
     g |-> r.g, n |-> 1]

nxt_downfall_recovery(prev, i, g) ==
    LET r == rand(g) IN
    [nxt |-> IF i < 4 THEN prev - 10 * r.x ELSE prev + 15 * r.x,
     g |-> r.g, n |-> 1]

\* "direction = 1 if np.random.rand() > 0.5 else -1"
up_down_direction(g) ==
    LET r1 == rand(g) IN [direction |-> IF r1.x > 5 THEN 1 ELSE -1, g |-> r1.g]

\* "nxt = traj[-1] + direction * (0.15 + 0.1 * np.random.rand())"
up_down_nxt(prev, direction, g) ==
    LET r2 == rand(g) IN [nxt |-> prev + direction * (150 + 10 * r2.x), g |-> r2.g]

nxt_up_down(prev, i, g) ==
    LET d == up_down_direction(g)
        c == up_down_nxt(prev, d.direction, d.g)
    IN [nxt |-> c.nxt, g |-> c.g, n |-> 2]

\* the first setback one step late
nxt_perfectionist_late(prev, i, g) ==
    LET r == rand(g) IN
    [nxt |-> IF i \in {4, 6} THEN prev - 15 * r.x ELSE prev + (80 + 7 * r.x),
     g |-> r.g, n |-> 1]

nxt_perfectionist(prev, i, g) ==
    LET r == rand(g) IN
    [nxt |-> IF i \in {3, 6} THEN prev - 15 * r.x ELSE prev + (80 + 7 * r.x),
     g |-> r.g, n |-> 1]

nxt_consistent_improvement(prev, i, g) ==
    LET z == randn(g) IN [nxt |-> prev + 70 + 2 * z.x, g |-> z.g, n |-> 1]

nxt_chaotic(prev, i, g) ==
    LET z == randn(g) IN
    [nxt |-> prev + (20 * z.x) + 50 * (IF i % 2 = 0 THEN 1 ELSE -1),
     g |-> z.g, n |-> 1]

nxt_late_bloomer(prev, i, g) ==
    LET r == rand(g) IN
    [nxt |-> IF i < 5 THEN prev - 2 * r.x ELSE prev + 150 + 5 * r.x,
     g |-> r.g, n |-> 1]

nxt_spike_plateau(prev, i, g) ==
    LET z == randn(g) IN
    [nxt |-> IF 3 <= i /\ i <= 5 THEN prev + 250 + 5 * z.x ELSE prev + 2 * z.x,
     g |-> z.g, n |-> 1]

nxt_senioritis(prev, i, g) ==
    IF i < 7
    THEN LET z == randn(g) IN [nxt |-> prev + 80 + 2 * z.x, g |-> z.g, n |-> 1]
    ELSE LET r == rand(g) IN [nxt |-> prev - (10 * r.x), g |-> r.g, n |-> 1]

\* a decline of 0.0 to 0.05 per step
nxt_no_study_slow(prev, i, g) ==
    LET r == rand(g) IN [nxt |-> prev - (5 * r.x), g |-> r.g, n |-> 1]

nxt_no_study(prev, i, g) ==
    LET r == rand(g) IN [nxt |-> prev - (50 + 5 * r.x), g |-> r.g, n |-> 1]

nxt_burnout(prev, i, g) ==
    IF 3 <= i /\ i <= 5
    THEN LET r == rand(g) IN [nxt |-> prev - (100 + 10 * r.x), g |-> r.g, n |-> 1]
    ELSE LET z == randn(g) IN [nxt |-> prev + (5 * z.x), g |-> z.g, n |-> 1]

nxt_triumph_over_adversity(prev, i, g) ==
    LET r == rand(g) IN
    [nxt |-> IF i < 4 THEN prev - 5 * r.x ELSE prev + 120 + 8 * r.x,
     g |-> r.g, n |-> 1]

Nxt(fn, prev, i, g) ==
    CASE fn = "generate_balanced_growth"        -> nxt_balanced_growth(prev, i, g)
      [] fn = "generate_high_achiever"          -> nxt_high_achiever(prev, i, g)
      [] fn = "generate_downfall_recovery"      -> nxt_downfall_recovery(prev, i, g)
      [] fn = "generate_up_down"                -> nxt_up_down(prev, i, g)
      [] fn = "generate_perfectionist"          -> nxt_perfectionist(prev, i, g)
      [] fn = "generate_consistent_improvement" -> nxt_consistent_improvement(prev, i, g)
      [] fn = "generate_chaotic"                -> nxt_chaotic(prev, i, g)
      [] fn = "generate_late_bloomer"           -> nxt_late_bloomer(prev, i, g)
      [] fn = "generate_spike_plateau"          -> nxt_spike_plateau(prev, i, g)
      [] fn = "generate_senioritis"             -> nxt_senioritis(prev, i, g)
      [] fn = "generate_no_study"               -> nxt_no_study(prev, i, g)
      [] fn = "generate_burnout"                -> nxt_burnout(prev, i, g)
      [] fn = "generate_triumph_over_adversity" -> nxt_triumph_over_adversity(prev, i, g)

\* "traj.append(min(max(2.0, nxt), 4.0))"
ClampFloorOnly(x) == Max(2000, x)
ClampCeilingOnly(x) == Min(x, 4000)
Clamp(x) == Min(Max(2000, x), 4000)

\* "for i in range(1, steps)": the iterations from index i on
RECURSIVE Loop(_, _, _, _, _, _)
Loop(fn, traj, i, steps, g, n) ==
    IF i >= steps
    THEN [traj |-> traj, g |-> g, n |-> n]
    ELSE LET c == Nxt(fn, traj[Len(traj)], i, g)
         IN Loop(fn, Append(traj, Clamp(c.nxt)), i + 1, steps, c.g, n + c.n)

\* the body shared by the 13 functions: seed, traj = [start], loop, return.
\* No path of it raises: every call returns.
generate_range_from_zero(fn, start, steps, seed, g) ==
    LET r == Loop(fn, <<start>>, 0, steps, Seeding(g, seed), 0)
    IN [outcome |-> "returned", traj |-> r.traj, g |-> r.g, draws |-> r.n]
generate_range_inclusive(fn, start, steps, seed, g) ==
    LET r == Loop(fn, <<start>>, 1, steps + 1, Seeding(g, seed), 0)
    IN [outcome |-> "returned", traj |-> r.traj, g |-> r.g, draws |-> r.n]
generate(fn, start, steps, seed, g) ==
    LET r == Loop(fn, <<start>>, 1, steps, Seeding(g, seed), 0)
    IN [outcome |-> "returned", traj |-> r.traj, g |-> r.g, draws |-> r.n]

\* ------------------------------------------------------------------------
\* analysis.py: categorize_cgpa and compute_category_counts.
\* The labels are the source's without their leading emoji.
\* ------------------------------------------------------------------------
Labels ==
    { "Very Low", "Below 3.0", "Safe Zone", "Strong", "Dean's List Range",
      "Near Perfection" }

categorize_upper_inclusive(cgpa) ==
    IF cgpa <= 2000 THEN "Very Low"
    ELSE IF cgpa <= 3000 THEN "Below 3.0"
    ELSE IF cgpa <= 3500 THEN "Safe Zone"
    ELSE IF cgpa <= 3600 THEN "Strong"
    ELSE IF cgpa <= 3800 THEN "Dean's List Range"
    ELSE "Near Perfection"

categorize_cgpa(cgpa) ==
    IF cgpa < 2000 THEN "Very Low"
    ELSE IF cgpa < 3000 THEN "Below 3.0"
    ELSE IF cgpa < 3500 THEN "Safe Zone"
    ELSE IF cgpa < 3600 THEN "Strong"
    ELSE IF cgpa < 3800 THEN "Dean's List Range"
    ELSE "Near Perfection"

\* the advice chain with every threshold taken upper-inclusive
advice_upper_inclusive(final_val) ==
    IF final_val <= 3000 THEN "Focus on fundamentals."
    ELSE IF final_val <= 3500 THEN "Strengthen projects/internships."
    ELSE IF final_val <= 3600 THEN "Aim for advanced courses."
    ELSE IF final_val <= 3800 THEN "Seek leadership roles."
    ELSE "Expand into R&D."

\* app.py: the advice text of the dashboard's table
advice(final_val) ==
    IF final_val < 3000 THEN "Focus on fundamentals."
    ELSE IF final_val < 3500 THEN "Strengthen projects/internships."
    ELSE IF final_val < 3600 THEN "Aim for advanced courses."
    ELSE IF final_val < 3800 THEN "Seek leadership roles."
    ELSE "Expand into R&D."

\* simulation.py: the "Category & Advice" cell of the console's table (its
\* first line; the tip on the second line is fixed by the first)
category_msg(final_cg) ==
    IF final_cg < 3000 THEN "Below 3.0: Could face interview filters."
    ELSE IF final_cg < 3500 THEN "3.0-3.5: Safe for many roles."
    ELSE IF final_cg < 3600 THEN "3.5-3.6: You stand out."
    ELSE IF final_cg < 3800 THEN "3.6-3.8: Dean's List territory."
    ELSE "3.8-4.0: Near perfection!"

\* "for val in final_values": the iterations from position i on
RECURSIVE Tally(_, _, _)
Tally(counts, final_values, i) ==
    IF i > Len(final_values)
    THEN counts
    ELSE LET cat == categorize_cgpa(final_values[i]) IN
         IF cat \in DOMAIN counts
         THEN Tally([counts EXCEPT ![cat] = @ + 1], final_values, i + 1)
         ELSE Tally([k \in (DOMAIN counts) \cup {cat} |->
                        IF k = cat THEN 1 ELSE counts[k]],
                    final_values, i + 1)

\* the tally started from an empty mapping (categories without a value are
\* then absent, as in a value_counts())
compute_category_counts_sparse(final_values) ==
    Tally([k \in {} |-> 0], final_values, 1)

compute_category_counts(final_values) ==
    Tally([k \in Labels |-> 0], final_values, 1)

\* ------------------------------------------------------------------------
\* Floats: the arithmetic of the values the front-ends compute and compare
\* (paths.py as app.py and simulation.py call it, app.py:185 and 193)
\* ------------------------------------------------------------------------
\* A Python float is an IEEE-754 binary64: every operation gives the exact
\* result rounded to 53 significant bits, ties to even.  The magnitude of a
\* float f < 64 is held as the natural number f * 2^80, written in Limbs
\* digits of base 2^BaseBits, lowest digit first; every float met here is a
\* multiple of 2^-80.  A signed float is [neg, mag]; zero is never negative
\* (no operation of the program yields -0.0).  The stored values (elements
\* of trajectories and histories) are not negative: they are magnitudes.
BaseBits == 20
Base == 2 ^ BaseBits
HalfBase == 2 ^ (BaseBits \div 2)
Limbs == 5
\* 2^80 = Base^PointLimb
PointLimb == 4
Mantissa == 53

RECURSIVE Zeros(_)
Zeros(n) == IF n = 0 THEN <<>> ELSE <<0>> \o Zeros(n - 1)

\* the digits of a * k from digit i on, for a natural k <= 1024
RECURSIVE MulFrom(_, _, _, _)
MulFrom(a, k, i, carry) ==
    IF i > Len(a) THEN <<>>
    ELSE <<(a[i] * k + carry) % Base>>
             \o MulFrom(a, k, i + 1, (a[i] * k + carry) \div Base)

\* the digits of a + b from digit i on
RECURSIVE AddFrom(_, _, _, _)
AddFrom(a, b, i, carry) ==
    IF i > Len(a) THEN <<>>
    ELSE <<(a[i] + b[i] + carry) % Base>>
             \o AddFrom(a, b, i + 1, (a[i] + b[i] + carry) \div Base)

\* the digits of a - b from digit i on, for a >= b
RECURSIVE SubFrom(_, _, _, _)
SubFrom(a, b, i, borrow) ==
    IF i > Len(a) THEN <<>>
    ELSE <<(a[i] - b[i] - borrow + Base) % Base>>
             \o SubFrom(a, b, i + 1, IF a[i] - b[i] - borrow < 0 THEN 1 ELSE 0)

\* a divided by a natural k <= 1000, from digit i down: the quotient and
\* whether a remainder is left
RECURSIVE DivFrom(_, _, _, _, _)
DivFrom(a, k, i, rem, q) ==
    IF i = 0 THEN [q |-> q, inexact |-> rem # 0]
    ELSE DivFrom(a, k, i - 1, (rem * Base + a[i]) % k,
                 <<(rem * Base + a[i]) \div k>> \o q)

\* -1, 0, 1 as a is below, equal to or above b
RECURSIVE CmpFrom(_, _, _)
CmpFrom(a, b, i) ==
    IF i = 0 THEN 0
    ELSE IF a[i] < b[i] THEN -1
    ELSE IF a[i] > b[i] THEN 1
    ELSE CmpFrom(a, b, i - 1)

FLe(a, b) == CmpFrom(a, b, Len(a)) <= 0
FLess(a, b) == CmpFrom(a, b, Len(a)) < 0

RECURSIVE TopLimb(_, _)
TopLimb(a, i) == IF i = 0 THEN 0 ELSE IF a[i] # 0 THEN i ELSE TopLimb(a, i - 1)

RECURSIVE Bits(_)
Bits(x) == IF x = 0 THEN 0 ELSE 1 + Bits(x \div 2)

\* the number of binary digits of a, whose highest non-zero digit is top
BitLengthAt(a, top) == IF top = 0 THEN 0 ELSE BaseBits * (top - 1) + Bits(a[top])
BitLength(a) == BitLengthAt(a, TopLimb(a, Len(a)))

\* binary digit j of a, the lowest being digit 0
Bit(a, j) == (a[(j \div BaseBits) + 1] \div (2 ^ (j % BaseBits))) % 2

\* one of the s lowest binary digits of a is 1
LowNonZero(a, s) ==
    \E i \in 1 .. Len(a) :
        \/ i - 1 < s \div BaseBits /\ a[i] # 0
        \/ i - 1 = s \div BaseBits /\ a[i] % (2 ^ (s % BaseBits)) # 0

\* 2^s, in n digits
Unit(s, n) == [i \in 1 .. n |-> IF i - 1 = s \div BaseBits THEN 2 ^ (s % BaseBits) ELSE 0]

\* a with its s lowest binary digits cleared, from digit i on
RECURSIVE High(_, _, _)
High(a, s, i) ==
    IF i > Len(a) THEN <<>>
    ELSE <<IF i - 1 < s \div BaseBits THEN 0
           ELSE IF i - 1 = s \div BaseBits THEN a[i] - (a[i] % (2 ^ (s % BaseBits)))
           ELSE a[i]>> \o High(a, s, i + 1)

\* a, followed by a non-zero tail when inexact, cut at binary digit s: to
\* the nearest multiple of 2^s, a tie to the even one
RoundAt(a, inexact, s) ==
    IF s <= 0 THEN a
    ELSE IF /\ Bit(a, s - 1) = 1
            /\ (inexact \/ LowNonZero(a, s - 1) \/ Bit(a, s) = 1)
    THEN AddFrom(High(a, s, 1), Unit(s, Len(a)), 1, 0)
    ELSE High(a, s, 1)

\* the float nearest the exact result of an operation
Round(a, inexact) == RoundAt(a, inexact, BitLength(a) - Mantissa)
RoundQuotient(d) == Round(d.q, d.inexact)

\* v * 2^80 for a natural v: the exact value of v thousandths, on the scale
\* on which MulFrom(f, 1000, 1, 0) holds the float f
Exact(v) ==
    [i \in 1 .. Limbs |-> IF i = PointLimb + 1 THEN v % Base
                          ELSE IF i = PointLimb + 2 THEN v \div Base
                          ELSE 0]

\* the float of a decimal text, given in thousandths: 3800 is float("3.8")
FromDecimal(v) == RoundQuotient(DivFrom(Exact(v), 1000, Limbs, 0, <<>>))

\* f * n, f + g and f / n for floats f, g >= 0 and a small whole number n
FMul(f, n) == Round(MulFrom(f, n, 1, 0), FALSE)
FAdd(f, g) == Round(AddFrom(f, g, 1, 0), FALSE)
FDiv(f, n) == RoundQuotient(DivFrom(f, n, Len(f), 0, <<>>))

\* digit d of y in base HalfBase, the lowest being digit 1
HalfDigit(y, d) ==
    IF d % 2 = 1 THEN y[(d + 1) \div 2] % HalfBase ELSE y[d \div 2] \div HalfBase

\* acc * HalfBase^d + x * (the d lowest digits of y in base HalfBase)
RECURSIVE Horner(_, _, _, _)
Horner(x, y, d, acc) ==
    IF d = 0 THEN acc
    ELSE Horner(x, y, d - 1,
                AddFrom(MulFrom(acc, HalfBase, 1, 0),
                        MulFrom(x, HalfDigit(y, d), 1, 0), 1, 0))

\* x * y for floats x, y >= 0: the exact product, on the scale 2^-160,
\* rounded and brought back to the scale 2^-80
FProd(x, y) ==
    SubSeq(Round(Horner(x \o Zeros(Limbs), y, 2 * Limbs, Zeros(2 * Limbs)), FALSE),
           PointLimb + 1, PointLimb + Limbs)

\* signed floats
Signed(neg, mag) == [neg |-> neg /\ TopLimb(mag, Len(mag)) # 0, mag |-> mag]
Positive(mag) == [neg |-> FALSE, mag |-> mag]
Negated(x) == Signed(~x.neg, x.mag)

\* the float of a decimal text with a sign, in thousandths
SignedDecimal(v) == IF v < 0 THEN Signed(TRUE, FromDecimal(-v)) ELSE Positive(FromDecimal(v))

\* x + y, x - y and x * y
SAdd(x, y) ==
    IF x.neg = y.neg THEN Signed(x.neg, FAdd(x.mag, y.mag))
    ELSE IF FLe(y.mag, x.mag)
    THEN Signed(x.neg, Round(SubFrom(x.mag, y.mag, 1, 0), FALSE))
    ELSE Signed(y.neg, Round(SubFrom(y.mag, x.mag, 1, 0), FALSE))
SSub(x, y) == SAdd(x, Negated(y))
SMul(x, y) == Signed(x.neg # y.neg, FProd(x.mag, y.mag))

\* x < y
SLess(x, y) ==
    IF x.neg # y.neg THEN x.neg
    ELSE IF x.neg THEN FLess(y.mag, x.mag)
    ELSE FLess(x.mag, y.mag)

\* the greatest v, in thousandths, whose float is at most f: f is below the
\* float of a threshold exactly when Thousandths(f) is below the threshold
WholeThousandths(m) == m[PointLimb + 1]
NearestBelow(f, c) ==
    IF FLe(FromDecimal(c + 1), f) THEN c + 1
    ELSE IF FLe(FromDecimal(c), f) THEN c
    ELSE c - 1
Thousandths(f) == NearestBelow(f, WholeThousandths(MulFrom(f, 1000, 1, 0)))

\* ------------------------------------------------------------------------
\* Doubles: the floats of analysis.py, whose size has no lower bound (the
\* squared deviation of a value one unit in the last place off the mean is
\* about 2^-104).  A double is [neg, exp, mag]: mag is a natural of DLimbs
\* digits whose highest digit is not 0 and weighs Base^exp, so that the
\* value is mag * 2^-60 * Base^exp; zero is the double of magnitude 0, never
\* negative; the magnitude of nan is the empty tuple.  No operation of
\* summarize_statistics yields an infinity.
\* ------------------------------------------------------------------------
DLimbs == Limbs - 1
DNaN == [neg |-> FALSE, exp |-> 0, mag |-> <<>>]
DZero == [neg |-> FALSE, exp |-> 0, mag |-> Zeros(DLimbs)]
DIsNaN(x) == x.mag = <<>>
DIsZero(x) == x.mag = Zeros(DLimbs)

\* digits lo .. hi of a, a digit a does not have being 0
Window(a, lo, hi) ==
    [i \in 1 .. (hi - lo + 1) |->
        IF lo + i - 1 \in 1 .. Len(a) THEN a[lo + i - 1] ELSE 0]

\* the double of the natural a, of at most 53 significant bits, whose digit
\* p weighs Base^k
NormalAt(neg, a, top, p, k) ==
    IF top = 0 THEN DZero
    ELSE [neg |-> neg, exp |-> k + top - p, mag |-> Window(a, top - DLimbs + 1, top)]
Normal(neg, a, p, k) == NormalAt(neg, a, TopLimb(a, Len(a)), p, k)

\* the double nearest a natural a followed, when inexact, by a non-zero tail
Nearest(neg, a, inexact, p, k) == Normal(neg, Round(a \o <<0>>, inexact), p, k)
NearestQuotient(neg, d, p, k) == Nearest(neg, d.q, d.inexact, p, k)

\* the double of a decimal text given in thousandths
Dbl(v) == Normal(v < 0, FromDecimal(IF v < 0 THEN -v ELSE v), PointLimb + 1, 0)

\* the magnitude of x as a natural whose digit DLimbs weighs Base^lo, for
\* 0 <= x.exp - lo < DLimbs
Lifted(x, lo) == Zeros(x.exp - lo) \o x.mag \o Zeros(DLimbs - (x.exp - lo))

\* x + y for magnitudes a of x and b of y on the scale of lo
SumAt(x, y, a, b, lo) ==
    IF x.neg = y.neg THEN Nearest(x.neg, AddFrom(a, b, 1, 0), FALSE, DLimbs, lo)
    ELSE IF CmpFrom(a, b, Len(a)) >= 0
    THEN Nearest(x.neg, SubFrom(a, b, 1, 0), FALSE, DLimbs, lo)
    ELSE Nearest(y.neg, SubFrom(b, a, 1, 0), FALSE, DLimbs, lo)
SumOn(x, y, lo) == SumAt(x, y, Lifted(x, lo), Lifted(y, lo), lo)

\* x + y: a term below 2^-60 of the other does not change it
DAdd(x, y) ==
    IF DIsNaN(x) \/ DIsNaN(y) THEN DNaN
    ELSE IF DIsZero(y) THEN x
    ELSE IF DIsZero(x) THEN y
    ELSE IF x.exp - y.exp >= DLimbs THEN x
    ELSE IF y.exp - x.exp >= DLimbs THEN y
    ELSE SumOn(x, y, Min(x.exp, y.exp))

DNeg(x) == IF DIsNaN(x) \/ DIsZero(x) THEN x ELSE [x EXCEPT !.neg = ~x.neg]
DSub(x, y) == DAdd(x, DNeg(y))

\* the digits of a in base HalfBase, from digit i of a on
RECURSIVE HalvesFrom(_, _)
HalvesFrom(a, i) ==
    IF i > Len(a) THEN <<>>
    ELSE <<a[i] % HalfBase, a[i] \div HalfBase>> \o HalvesFrom(a, i + 1)

\* The product of two naturals given by their digits a and b in base
\* HalfBase, column by column: column k is the sum of the products of digit
\* i of a and digit k + 1 - i of b, and two columns with what the lower
\* ones carry make one digit in base Base.
RECURSIVE Column(_, _, _, _, _)
Column(a, b, k, i, hi) ==
    IF i > hi THEN 0 ELSE a[i] * b[k + 1 - i] + Column(a, b, k, i + 1, hi)
ColumnOf(a, b, k) == Column(a, b, k, Max(1, k + 1 - Len(b)), Min(k, Len(a)))

RECURSIVE ProductFrom(_, _, _, _)
ProductHigh(a, b, m, lo, hi) ==
    <<(lo % HalfBase) + HalfBase * (hi % HalfBase)>> \o ProductFrom(a, b, m + 1, hi \div HalfBase)
ProductLow(a, b, m, lo) == ProductHigh(a, b, m, lo, ColumnOf(a, b, 2 * m) + lo \div HalfBase)
ProductFrom(a, b, m, carry) ==
    IF 2 * m > Len(a) + Len(b) THEN <<>>
    ELSE ProductLow(a, b, m, ColumnOf(a, b, 2 * m - 1) + carry)
Product(x, y) == ProductFrom(HalvesFrom(x, 1), HalvesFrom(y, 1), 1, 0)

\* x * y
DMul(x, y) ==
    IF DIsNaN(x) \/ DIsNaN(y) THEN DNaN
    ELSE IF DIsZero(x) \/ DIsZero(y) THEN DZero
    ELSE Nearest(x.neg # y.neg, Product(x.mag, y.mag),
                 FALSE, 2 * DLimbs - 1, x.exp + y.exp)

\* x / n for a count n; 0.0 / 0 is nan, and nothing else is divided by 0
DOver(x, n) ==
    IF DIsNaN(x) \/ n = 0 THEN DNaN
    ELSE IF DIsZero(x) THEN DZero
    ELSE NearestQuotient(x.neg, DivFrom(Zeros(2) \o x.mag, n, DLimbs + 2, 0, <<>>),
                         DLimbs + 2, x.exp)

\* a digit of the quotient r / d in base HalfBase, from the leading digits
\* of r < d * HalfBase and of d, whose highest non-zero digit is top: the
\* digit or the one below
Estimate(r, d, top) ==
    IF d[top] >= HalfBase
    THEN (r[top + 1] * Base + r[top]) \div (d[top] + 1)
    ELSE (r[top] * HalfBase + r[top - 1] \div HalfBase)
            \div (d[top] * HalfBase + d[top - 1] \div HalfBase + 1)

\* q and r >= 0 brought to r < d, keeping q * d + r
RECURSIVE Settle(_, _, _)
Settle(r, d, q) ==
    IF CmpFrom(r, d, Len(r)) < 0 THEN [r |-> r, q |-> q]
    ELSE Settle(SubFrom(r, d, 1, 0), d, q + 1)

\* r divided by d, for r < d * HalfBase
DivDigit(r, d, q) == Settle(SubFrom(r, MulFrom(d, q, 1, 0), 1, 0), d, q)
DivStep(r, d, top) == DivDigit(r, d, Estimate(r, d, top))

\* long division of a by d in base HalfBase: at holds the digit i of a to
\* bring down next, the remainder r and the digits q of the quotient so far,
\* lowest first
Brought(at, s) == [i |-> at.i - 1, r |-> s.r, q |-> <<s.q>> \o at.q]
RECURSIVE LongDiv(_, _, _, _)
LongDiv(a, d, top, at) ==
    IF at.i = 0 THEN at
    ELSE LongDiv(a, d, top,
                 Brought(at, DivStep(MulFrom(at.r, HalfBase, 1, HalfDigit(a, at.i)),
                                     d, top)))

\* digits of base HalfBase joined two by two
Joined(h) == [i \in 1 .. (Len(h) \div 2) |-> h[2 * i - 1] + HalfBase * h[2 * i]]

\* the quotient of the natural a by the natural d # 0, and whether a
\* remainder is left; the highest non-zero digit of d is top, and the
\* top - 1 highest digits of a, a natural below d, are the first remainder
JoinedQuotient(at) == [q |-> Joined(at.q), inexact |-> TopLimb(at.r, Len(at.r)) # 0]
IntDivAt(a, d, top) ==
    JoinedQuotient(LongDiv(a, d \o <<0>>, top,
                           [i |-> 2 * (Len(a) - top + 1),
                            r |-> Window(a, Len(a) - top + 2, Len(a) + Len(d) - top + 2),
                            q |-> <<>>]))
IntDiv(a, d) == IntDivAt(a, d, TopLimb(d, Len(d)))

\* x / y for y # 0
DDiv(x, y) ==
    IF DIsNaN(x) \/ DIsNaN(y) THEN DNaN
    ELSE IF DIsZero(x) THEN DZero
    ELSE NearestQuotient(x.neg # y.neg, IntDiv(Zeros(DLimbs) \o x.mag, y.mag),
                         DLimbs + 1, x.exp - y.exp)

\* the greatest digit q in lo .. hi with (t + q) * q <= r, on small naturals
RECURSIVE DigitIn(_, _, _, _)
DigitAt(t, r, lo, hi, mid) ==
    IF (t + mid) * mid <= r THEN DigitIn(t, r, mid, hi) ELSE DigitIn(t, r, lo, mid - 1)
DigitIn(t, r, lo, hi) ==
    IF lo >= hi THEN lo ELSE DigitAt(t, r, lo, hi, (lo + hi + 1) \div 2)

\* The square root of a natural n, digit by digit: each digit of n brings
\* one digit of the root in base HalfBase.  With d twice the root so far and
\* r what is left of n, at most d, the next digit is the greatest q with
\* (d * HalfBase + q) * q <= r: a guess q is lowered while it is too high,
\* then raised while what is left exceeds twice the new root.
RECURSIVE RootSettle(_, _, _)
RootSettle(i, r, d) ==
    IF CmpFrom(r, d, Len(r)) <= 0 THEN [i |-> i, r |-> r, d |-> d]
    ELSE RootSettle(i, SubFrom(r, d, 1, 1), AddFrom(d, Zeros(Len(d)), 1, 2))

RECURSIVE RootDigit(_, _, _, _)
RootTry(i, r, d, q, prod) ==
    IF CmpFrom(prod, r, Len(r)) > 0 THEN RootDigit(i, r, d, q - 1)
    ELSE RootSettle(i, SubFrom(r, prod, 1, 0), MulFrom(d, HalfBase, 1, 2 * q))
RootDigit(i, r, d, q) ==
    RootTry(i, r, d, q, MulFrom(MulFrom(d, HalfBase, 1, q), q, 1, 0))

\* the guess: exact while the numbers are small, then the digit of r / (d *
\* HalfBase) that long division estimates
EstimateOf(r, t) == Estimate(r, t, TopLimb(t, Len(t)))
RootGuess(r, d) ==
    IF TopLimb(d, Len(d)) <= 1 /\ d[1] < 2 * HalfBase
    THEN DigitIn(d[1] * HalfBase, r[2] * Base + r[1], 0, HalfBase - 1)
    ELSE Min(EstimateOf(r, MulFrom(d, HalfBase, 1, 0)), HalfBase - 1)
RootBring(i, r, d) == RootDigit(i, r, d, RootGuess(r, d))

RECURSIVE RootFrom(_, _)
RootFrom(n, at) ==
    IF at.i = 0 THEN at
    ELSE RootFrom(n, RootBring(at.i - 1, <<n[at.i]>> \o SubSeq(at.r, 1, Len(at.r) - 1), at.d))

\* the root of n rounded down, and whether something of n is left
Halved(at) ==
    [q |-> DivFrom(at.d, 2, Len(at.d), 0, <<>>).q, inexact |-> TopLimb(at.r, Len(at.r)) # 0]
Root(n) ==
    Halved(RootFrom(n, [i |-> Len(n), r |-> Zeros(DLimbs + 2), d |-> Zeros(DLimbs + 2)]))

\* sqrt(x): the root of the magnitude on a scale whose exponent is even
DSqrt(x) ==
    IF DIsNaN(x) \/ x.neg THEN DNaN
    ELSE IF DIsZero(x) THEN DZero
    ELSE NearestQuotient(FALSE, Root(Zeros(DLimbs - 1 + (x.exp % 2)) \o x.mag),
                         DLimbs, (x.exp - (x.exp % 2)) \div 2)

\* x < y and x <= y; false when either is nan
MagLess(x, y) ==
    /\ ~DIsZero(y)
    /\ \/ DIsZero(x)
       \/ x.exp < y.exp
       \/ x.exp = y.exp /\ FLess(x.mag, y.mag)
DLess(x, y) ==
    /\ ~DIsNaN(x) /\ ~DIsNaN(y)
    /\ IF x.neg # y.neg THEN x.neg
       ELSE IF x.neg THEN MagLess(y, x)
       ELSE MagLess(x, y)
DLe(x, y) == ~DIsNaN(x) /\ ~DIsNaN(y) /\ ~DLess(y, x)

\* ------------------------------------------------------------------------
\* analysis.py: summarize_statistics.
\* The count is an integer.  Every other field is the double numpy and
\* Python compute, in units, from the floats of the values, each operation
\* rounding: the mean (the sum from 0.0, left to right, over n), the median
\* (the mean of the one or two middle values), the percentiles (numpy's
\* linear interpolation between two neighbours of the sorted array), the
\* variance (the squared deviations from the mean, their sum over n - ddof),
\* its square root, and mean -/+ 1.96 * (std / sqrt(n)).
\* ------------------------------------------------------------------------
\* np.array(final_values): the double of each value, given in thousandths
np_array(final_values) == [i \in 1 .. Len(final_values) |-> Dbl(final_values[i])] @@ <<>>

\* the sort np.median and np.percentile do on a copy of the array
RECURSIVE Insert(_, _)
Insert(sorted, x) ==
    IF sorted = <<>> THEN <<x>>
    ELSE IF DLe(x, Head(sorted)) THEN <<x>> \o sorted
    ELSE <<Head(sorted)>> \o Insert(Tail(sorted), x)

RECURSIVE SortFrom(_, _)
SortFrom(arr, i) == IF i > Len(arr) THEN <<>> ELSE Insert(SortFrom(arr, i + 1), arr[i])
Sort(arr) == SortFrom(arr, 1)

\* numpy's add.reduce on fewer than eight doubles: from 0.0, left to right
RECURSIVE umr_sum_from(_, _, _)
umr_sum_from(x, i, acc) ==
    IF i > Len(x) THEN acc ELSE umr_sum_from(x, i + 1, DAdd(acc, x[i]))
umr_sum(x) == umr_sum_from(x, 1, DZero)

\* np.mean(arr): the sum over the count
np_mean(arr) == DOver(umr_sum(arr), Len(arr))

\* np.min(arr) and np.max(arr): minimum.reduce and maximum.reduce
RECURSIVE np_min_from(_, _, _)
np_min_from(arr, i, m) ==
    IF i > Len(arr) THEN m
    ELSE np_min_from(arr, i + 1, IF DLess(arr[i], m) THEN arr[i] ELSE m)
np_min(arr) == np_min_from(arr, 2, arr[1])

RECURSIVE np_max_from(_, _, _)
np_max_from(arr, i, m) ==
    IF i > Len(arr) THEN m
    ELSE np_max_from(arr, i + 1, IF DLess(m, arr[i]) THEN arr[i] ELSE m)
np_max(arr) == np_max_from(arr, 2, arr[1])

\* np.median(arr): np.mean of the middle value, or of the two middle values,
\* of the sorted array
np_median(arr) ==
    LET a == Sort(arr)
        n == Len(arr)
    IN IF n % 2 = 1 THEN np_mean(<<a[(n + 1) \div 2]>>)
       ELSE np_mean(<<a[n \div 2], a[(n \div 2) + 1]>>)

\* method "lower": the order statistic at the floor of the rank, no interpolation
np_percentile_lower(arr, q) ==
    Sort(arr)[((q * (Len(arr) - 1)) \div 100) + 1]

\* numpy's _lerp(a, b, t), for t given in hundredths: a + (b - a) * t, and
\* b - (b - a) * (1 - t) where t >= 0.5
Lerp(a, b, t) ==
    LET diff_b_a == DSub(b, a)
    IN IF 2 * t >= 100 THEN DSub(b, DMul(diff_b_a, Dbl(10 * (100 - t))))
       ELSE DAdd(a, DMul(diff_b_a, Dbl(10 * t)))

\* np.percentile(arr, q), default method "linear", for q = 25 and q = 75: the
\* virtual index q/100 * (n - 1) is exact, gamma is its fractional part, and
\* the result interpolates between the sorted values at its floor and next
np_percentile(arr, q) ==
    LET a == Sort(arr)
        n == Len(arr)
        previous == (q * (n - 1)) \div 100
        gamma == (q * (n - 1)) % 100
        next == Min(previous + 1, n - 1)
    IN Lerp(a[previous + 1], a[next + 1], gamma)

\* numpy's _var: x = arr - arrmean, x = x * x, then the sum of x over rcount
Squared(d) == DMul(d, d)
SquaredDeviations(x, arrmean) == [i \in 1 .. Len(x) |-> Squared(DSub(x[i], arrmean))]
float_var(x, rcount) == DOver(umr_sum(SquaredDeviations(x, np_mean(x))), rcount)

\* np.var(arr): the population variance, whatever ddof is
np_var_population(arr, ddof) == float_var(arr, Len(arr))

\* np.var(arr, ddof=ddof): rcount is max(n - ddof, 0), and 0.0 / 0 is nan
np_var(arr, ddof) == float_var(arr, Max(Len(arr) - ddof, 0))

\* np.std(arr, ddof=1) is the square root of np.var(arr, ddof=1), given here
np_std(variance) == DSqrt(variance)

\* math.sqrt(n), for the counts met
Roots == [n \in 1 .. MaxLen |-> DSqrt(Dbl(1000 * n))] @@ <<>>
math_sqrt(n) == Roots[n]

EmptyDict == [k \in {} |-> 0]

Statistics(final_values) ==
    LET arr == np_array(final_values)
        mean_val == np_mean(arr)
        n == Len(arr)
        variance == np_var(arr, 1)
        std == np_std(variance)
        std_err == DDiv(std, math_sqrt(n))
        margin == DMul(Dbl(1960), std_err)
        ci_lower == DSub(mean_val, margin)
        ci_upper == DAdd(mean_val, margin)
    IN ("count" :> n) @@
       ("mean" :> mean_val) @@
       ("median" :> np_median(arr)) @@
       ("std" :> std) @@
       ("min" :> np_min(arr)) @@
       ("max" :> np_max(arr)) @@
       ("variance" :> variance) @@
       ("25th_percentile" :> np_percentile(arr, 25)) @@
       ("75th_percentile" :> np_percentile(arr, 75)) @@
       ("95ci_lower" :> ci_lower) @@
       ("95ci_upper" :> ci_upper)

\* zeros in the place of "no data"
summarize_statistics_zeros(final_values) ==
    IF Len(final_values) = 0
    THEN [k \in DOMAIN Statistics(<<0>>) |-> 0]
    ELSE Statistics(final_values)

summarize_statistics(final_values) ==
    IF Len(final_values) = 0 THEN EmptyDict ELSE Statistics(final_values)

\* ------------------------------------------------------------------------
\* State machine of the generator calls
\* ------------------------------------------------------------------------
NoCall ==
    [fn |-> None, start |-> 0, steps |-> 0, seed |-> NoSeed,
     outcome |-> None, traj |-> <<>>, draws |-> 0, before |-> 0]

NoAgg == [op |-> None, input |-> <<>>, result |-> <<>>]

NoDash == [pc |-> None, path_name |-> None]
NoCli == [pc |-> None]
NoThreads == <<>>

\* no front-end is running
Idle ==
    /\ hashseed = 0
    /\ dash = NoDash
    /\ cli = NoCli
    /\ thr = NoThreads

Init ==
    /\ rng \in RngStates
    /\ call = NoCall
    /\ agg = NoAgg
    /\ Idle

\* one call fn(start, steps=steps, seed=seed) on the global source; the call
\* runs to its return (the program is single-threaded)
Generate ==
    /\ call = NoCall
    /\ \E fn \in Generators, start \in Starts, steps \in StepCounts, seed \in Seeds :
         LET r == generate(fn, start, steps, seed, rng) IN
         /\ rng' = r.g
         /\ call' = [fn |-> fn, start |-> start, steps |-> steps, seed |-> seed,
                     outcome |-> r.outcome, traj |-> r.traj, draws |-> r.draws,
                     before |-> rng]
    /\ UNCHANGED <<agg, others>>

\* the caller is done with the returned trajectory; the source keeps its state
Discard ==
    /\ call # NoCall
    /\ call' = NoCall
    /\ UNCHANGED <<rng, agg, others>>

NextGen ==
    \/ Generate
    \/ Discard

SpecGen == Init /\ [][NextGen]_vars

\* ------------------------------------------------------------------------
\* State machine of the aggregator calls
\* ------------------------------------------------------------------------
\* values categorize_cgpa is called with: each threshold, its two neighbours
\* on the grid, and values far outside 0.0 .. 4.0
CatValues ==
    { -1000, 0, 1999, 2000, 2001, 2999, 3000, 3001, 3499, 3500, 3501, 3550,
      3599, 3600, 3601, 3799, 3800, 3801, 4000, 4001, 9000 }

\* final values handed to the aggregator
FinalValues == {1500, 2000, 2900, 3000, 3550, 3600, 3950, 4000}

\* the collections of at most MaxLen final values
Collections == UNION { [1 .. n -> FinalValues] : n \in 0 .. MaxLen }

\* final values handed to summarize_statistics, and their collections
SummaryValues == {1500, 2000, 2900, 3000, 3550, 4000}
Samples == UNION { [1 .. n -> SummaryValues] : n \in 0 .. MaxLen }

InitAgg ==
    /\ rng = 0
    /\ call = NoCall
    /\ agg = NoAgg
    /\ Idle

Categorize ==
    /\ agg = NoAgg
    /\ \E cgpa \in CatValues :
         agg' = [op |-> "categorize_cgpa", input |-> <<cgpa>>,
                 result |-> categorize_cgpa(cgpa)]
    /\ UNCHANGED <<rng, call, others>>

CountCategories ==
    /\ agg = NoAgg
    /\ \E final_values \in Collections :
         agg' = [op |-> "compute_category_counts", input |-> final_values,
                 result |-> compute_category_counts(final_values)]
    /\ UNCHANGED <<rng, call, others>>

Summarize ==
    /\ agg = NoAgg
    /\ \E final_values \in Samples :
         agg' = [op |-> "summarize_statistics", input |-> final_values,
                 result |-> summarize_statistics(final_values)]
    /\ UNCHANGED <<rng, call, others>>

\* the dashboard derives the advice of one final value
Advise ==
    /\ agg = NoAgg
    /\ \E final_val \in CatValues :
         agg' = [op |-> "advice", input |-> <<final_val>>,
                 result |-> advice(final_val)]
    /\ UNCHANGED <<rng, call, others>>

\* the console derives the category message of one final value
CategoryMsg ==
    /\ agg = NoAgg
    /\ \E final_cg \in CatValues :
         agg' = [op |-> "category_msg", input |-> <<final_cg>>,
                 result |-> category_msg(final_cg)]
    /\ UNCHANGED <<rng, call, others>>

\* the caller is done with the result; the aggregator keeps no state
DiscardAgg ==
    /\ agg # NoAgg
    /\ agg' = NoAgg
    /\ UNCHANGED <<rng, call, others>>

NextAgg ==
    \/ Categorize
    \/ CountCategories
    \/ Summarize
    \/ Advise
    \/ CategoryMsg
    \/ DiscardAgg

SpecAgg == InitAgg /\ [][NextAgg]_vars

\* ------------------------------------------------------------------------
\* The seed of one (path, variation) pair, shared by both front-ends
\* ------------------------------------------------------------------------
\* hash() results and seeds are machine words; the model keeps the words
\* narrow: HashModulus for the 2**64 values of a hash, SeedModulus for 2**32
HashModulus == 128
SeedModulus == 256
\* the keys str hashing can be started with (PYTHONHASHSEED): 0 .. MaxHashSeed
MaxHashSeed == 1
\* range(variations) is cut at MaxVariations
MaxVariations == 2

HashSeeds == 0 .. MaxHashSeed

all_paths ==
    << "Balanced Growth", "High Achiever", "Downfall & Recovery", "Up & Down",
       "Perfectionist", "Consistent Improve", "Chaotic", "Late Bloomer",
       "Spike Plateau", "Senioritis", "No Study", "Burnout",
       "Triumph Over Adversity" >>

PathNames == { all_paths[i] : i \in 1 .. Len(all_paths) }

\* path_map of app.py and path_styles[...]["func"] of simulation.py
path_map(path_name) ==
    CASE path_name = "Balanced Growth" -> "generate_balanced_growth"
      [] path_name = "High Achiever" -> "generate_high_achiever"
      [] path_name = "Downfall & Recovery" -> "generate_downfall_recovery"
      [] path_name = "Up & Down" -> "generate_up_down"
      [] path_name = "Perfectionist" -> "generate_perfectionist"
      [] path_name = "Consistent Improve" -> "generate_consistent_improvement"
      [] path_name = "Chaotic" -> "generate_chaotic"
      [] path_name = "Late Bloomer" -> "generate_late_bloomer"
      [] path_name = "Spike Plateau" -> "generate_spike_plateau"
      [] path_name = "Senioritis" -> "generate_senioritis"
      [] path_name = "No Study" -> "generate_no_study"
      [] path_name = "Burnout" -> "generate_burnout"
      [] path_name = "Triumph Over Adversity" -> "generate_triumph_over_adversity"

\* the content of a string, as a number: its position in all_paths
StrCode(path_name) == CHOOSE i \in 1 .. Len(all_paths) : all_paths[i] = path_name

\* the built-in hash() of a str: a keyed function of the content, the key
\* being drawn when the interpreter starts; a signed word
hash(path_name, key) ==
    ((StrCode(path_name) * 37 + key * 29) % HashModulus) - (HashModulus \div 2)

\* Python's %: the remainder has the sign of the divisor
py_mod(a, m) == a % m

\* (42 + hash(path_name) + variation_index) % (2 ** 32)
seed_val(path_name, variation_index, key) ==
    py_mod(42 + hash(path_name, key) + variation_index, SeedModulus)

\* ------------------------------------------------------------------------
\* paths.py in floats: what a front-end gets from a generator.  The draws
\* are those of rand and randn, a tenth x / 10 being the float of its
\* decimal text; the operations are the source's, in the source's order.
\* ------------------------------------------------------------------------
\* the float constants of the source, in thousandths, and the draws, in
\* tenths
Multipliers == {20, 50, 70, 80, 100, 150, 200}
Terms == {-50, 50, 60, 70, 80, 90, 100, 120, 150, 250}
Draws == (0 .. 9) \cup { ZTable[k] : k \in 1 .. Len(ZTable) }

\* the float constant c / 1000, and the product of the float constant
\* c / 1000 with the float of the draw x / 10; joined with the empty
\* function, each table is held enumerated and its entries computed once
ConstTable == [c \in Terms |-> SignedDecimal(c)] @@ <<>>
ScaledTable ==
    [p \in Multipliers \X Draws |-> SMul(SignedDecimal(p[1]), SignedDecimal(100 * p[2]))]
        @@ <<>>
Const(c) == ConstTable[c]
Scaled(c, r) == ScaledTable[<<c, r.x>>]

\* the bounds of the clamp
Lowest == FromDecimal(2000)
Highest == FromDecimal(4000)

\* the candidate next value of generator fn at loop index i, after prev
float_nxt(fn, prev, i, g) ==
    CASE fn = "generate_balanced_growth" ->
           LET z == randn(g) IN
           [nxt |-> SAdd(prev, SAdd(Scaled(50, z), Const(60))), g |-> z.g]
      [] fn = "generate_high_achiever" ->
           LET z == randn(g) IN
           [nxt |-> SAdd(prev, SAdd(Scaled(100, z), Const(90))), g |-> z.g]
      [] fn = "generate_downfall_recovery" ->
           LET r == rand(g) IN
           [nxt |-> IF i < 4 THEN SSub(prev, Scaled(100, r))
                    ELSE SAdd(prev, Scaled(150, r)),
            g |-> r.g]
      [] fn = "generate_up_down" ->
           LET d == up_down_direction(g)
               r2 == rand(d.g)
               size == SAdd(Const(150), Scaled(100, r2))
           IN [nxt |-> SAdd(prev, IF d.direction = 1 THEN size ELSE Negated(size)),
               g |-> r2.g]
      [] fn = "generate_perfectionist" ->
           LET r == rand(g) IN
           [nxt |-> IF i \in {3, 6} THEN SSub(prev, Scaled(150, r))
                    ELSE SAdd(prev, SAdd(Const(80), Scaled(70, r))),
            g |-> r.g]
      [] fn = "generate_consistent_improvement" ->
           LET z == randn(g) IN
           [nxt |-> SAdd(SAdd(prev, Const(70)), Scaled(20, z)), g |-> z.g]
      [] fn = "generate_chaotic" ->
           LET z == randn(g) IN
           [nxt |-> SAdd(SAdd(prev, Scaled(200, z)),
                         IF i % 2 = 0 THEN Const(50) ELSE Const(-50)),
            g |-> z.g]
      [] fn = "generate_late_bloomer" ->
           LET r == rand(g) IN
           [nxt |-> IF i < 5 THEN SSub(prev, Scaled(20, r))
                    ELSE SAdd(SAdd(prev, Const(150)), Scaled(50, r)),
            g |-> r.g]
      [] fn = "generate_spike_plateau" ->
           LET z == randn(g) IN
           [nxt |-> IF 3 <= i /\ i <= 5
                    THEN SAdd(SAdd(prev, Const(250)), Scaled(50, z))
                    ELSE SAdd(prev, Scaled(20, z)),
            g |-> z.g]
      [] fn = "generate_senioritis" ->
           IF i < 7
           THEN LET z == randn(g) IN
                [nxt |-> SAdd(SAdd(prev, Const(80)), Scaled(20, z)), g |-> z.g]
           ELSE LET r == rand(g) IN
                [nxt |-> SSub(prev, Scaled(100, r)), g |-> r.g]
      [] fn = "generate_no_study" ->
           LET r == rand(g) IN
           [nxt |-> SSub(prev, SAdd(Const(50), Scaled(50, r))), g |-> r.g]
      [] fn = "generate_burnout" ->
           IF 3 <= i /\ i <= 5
           THEN LET r == rand(g) IN
                [nxt |-> SSub(prev, SAdd(Const(100), Scaled(100, r))), g |-> r.g]
           ELSE LET z == randn(g) IN
                [nxt |-> SAdd(prev, Scaled(50, z)), g |-> z.g]
      [] fn = "generate_triumph_over_adversity" ->
           LET r == rand(g) IN
           [nxt |-> IF i < 4 THEN SSub(prev, Scaled(50, r))
                    ELSE SAdd(SAdd(prev, Const(120)), Scaled(80, r)),
            g |-> r.g]

\* min(max(lo, x), hi) for floats 0 <= lo <= hi: a magnitude
float_clamp(lo, x, hi) ==
    IF SLess(Positive(lo), x)
    THEN (IF FLess(x.mag, hi) THEN x.mag ELSE hi)
    ELSE lo

\* traj.append(min(max(2.0, nxt), 4.0)) for the candidate c, and the next
\* loop index
float_append(fn, traj, i, steps, c) ==
    [fn |-> fn, i |-> i + 1, steps |-> steps, g |-> c.g,
     traj |-> Append(traj, float_clamp(Lowest, c.nxt, Highest))]

\* "for i in range(1, steps)": the iterations from index i on
RECURSIVE float_loop(_)
float_loop(at) ==
    IF at.i >= at.steps THEN at
    ELSE float_loop(float_append(at.fn, at.traj, at.i, at.steps,
                                 float_nxt(at.fn, Positive(at.traj[Len(at.traj)]),
                                           at.i, at.g)))

\* fn(start, steps=steps, seed=seed) for a float start >= 0
float_generate(fn, start, steps, seed, g) ==
    float_loop([fn |-> fn, i |-> 1, steps |-> steps, g |-> Seeding(g, seed),
                traj |-> <<start>>])

\* ------------------------------------------------------------------------
\* State machine of the dashboard (app.py)
\* ------------------------------------------------------------------------
total_semesters == 10

\* the positions of the sliders
Semesters == 1 .. total_semesters
Cgpas == {0, 2000, 3510, 3800, 4000}
Adjusts == {-1000, -100, 0, 1000}

\* generate_semester_gpas: the call with param= raises TypeError before the
\* generator's body runs, and the call is repeated without it
generate_semester_gpas(fn, start, steps, seed, g) ==
    float_generate(fn, FromDecimal(start), steps, seed, g)

\* the shift cut at 0.0 only
what_if_no_ceiling(gpa, what_if_adjust) ==
    float_clamp(FromDecimal(0), SAdd(Positive(gpa), SignedDecimal(what_if_adjust)),
                FromDecimal(64000))

\* min(max(future_sem_gpas[i] + what_if_adjust, 0.0), 4.0)
what_if(gpa, what_if_adjust) ==
    float_clamp(FromDecimal(0), SAdd(Positive(gpa), SignedDecimal(what_if_adjust)),
                FromDecimal(4000))

\* the fold that never advances its count of completed semesters
RECURSIVE cumulate_fixed_count(_, _, _, _, _)
cumulate_fixed_count(cgpa_history, current_gpa, completed_semesters, gpas, i) ==
    IF i > Len(gpas)
    THEN cgpa_history
    ELSE LET new_cgpa == FDiv(FAdd(FMul(current_gpa, completed_semesters),
                                   gpas[i]),
                              completed_semesters + 1)
         IN cumulate_fixed_count(Append(cgpa_history, new_cgpa), new_cgpa,
                                 completed_semesters, gpas, i + 1)

\* the fold that divides by the count of semesters completed before
RECURSIVE cumulate_old_count(_, _, _, _, _)
cumulate_old_count(cgpa_history, current_gpa, completed_semesters, gpas, i) ==
    IF i > Len(gpas)
    THEN cgpa_history
    ELSE LET new_cgpa == FDiv(FAdd(FMul(current_gpa, completed_semesters),
                                   gpas[i]),
                              completed_semesters)
         IN cumulate_old_count(Append(cgpa_history, new_cgpa), new_cgpa,
                               completed_semesters + 1, gpas, i + 1)

\* "for single_sem_gpa in future_sem_gpas": the iterations from position i on.
\* current_gpa, the period values and the history are floats.
RECURSIVE cumulate(_, _, _, _, _)
cumulate(cgpa_history, current_gpa, completed_semesters, gpas, i) ==
    IF i > Len(gpas)
    THEN cgpa_history
    ELSE LET new_cgpa == FDiv(FAdd(FMul(current_gpa, completed_semesters),
                                   gpas[i]),
                              completed_semesters + 1)
         IN cumulate(Append(cgpa_history, new_cgpa), new_cgpa,
                     completed_semesters + 1, gpas, i + 1)

\* "for i in range(len(future_sem_gpas))": the iterations from position i on
RECURSIVE adjust(_, _, _)
adjust(future_sem_gpas, what_if_adjust, i) ==
    IF i > Len(future_sem_gpas)
    THEN future_sem_gpas
    ELSE adjust([future_sem_gpas EXCEPT ![i] = what_if(@, what_if_adjust)],
                what_if_adjust, i + 1)

\* the row of final_cgpas and the trace of one trajectory
row(inputs, cgpa_history) ==
    LET final_val == IF Len(cgpa_history) > 0 THEN cgpa_history[Len(cgpa_history)]
                     ELSE FromDecimal(inputs.current_cgpa)
    IN [cgpa_history |-> cgpa_history, final_val |-> final_val,
        cat |-> categorize_cgpa(Thousandths(final_val)),
        advice |-> advice(Thousandths(final_val))]

\* the body of the loop after the generator has returned
simulate(inputs, generated, future_sem_gpas) ==
    [inputs EXCEPT !.pc = "simulated"]
           @@ [generated |-> generated, sem_history |-> future_sem_gpas]
           @@ row(inputs, cumulate(<<>>, FromDecimal(inputs.current_cgpa),
                                   inputs.current_semester, future_sem_gpas, 1))

\* the sliders and the loop variables of one iteration
Inputs(path_name, variation_index, current_semester, current_cgpa, what_if_adjust, seed) ==
    [pc |-> "seeded", path_name |-> path_name, variation_index |-> variation_index,
     current_semester |-> current_semester, current_cgpa |-> current_cgpa,
     what_if_adjust |-> what_if_adjust,
     steps |-> Max(total_semesters - current_semester, 0),
     future_semesters |->
         [k \in 1 .. (total_semesters - current_semester) |-> current_semester + k],
     seed_val |-> seed]

\* the head of one iteration of "for variation_index in range(variations)",
\* up to the seeding that opens the generator; random.seed seeds the random
\* module, which no generator draws from
Seed ==
    /\ dash.pc = None
    /\ \E path_name \in PathNames, variation_index \in 0 .. (MaxVariations - 1),
          current_semester \in Semesters, current_cgpa \in Cgpas,
          what_if_adjust \in Adjusts :
         \E inputs \in { Inputs(path_name, variation_index, current_semester,
                                current_cgpa, what_if_adjust,
                                seed_val(path_name, variation_index, hashseed)) } :
            /\ rng' = Seeding(rng, inputs.seed_val)
            /\ dash' = inputs
    /\ UNCHANGED <<call, agg, hashseed, cli, thr>>

\* the rest of the iteration: the generator's loop, the what-if shift, the
\* fold and the row of the table
Simulate ==
    /\ dash.pc = "seeded"
    /\ \E r \in { generate_semester_gpas(path_map(dash.path_name), dash.current_cgpa,
                                         dash.steps, dash.seed_val, rng) } :
         /\ rng' = r.g
         /\ dash' = simulate(dash, r.traj, adjust(r.traj, dash.what_if_adjust, 1))
    /\ UNCHANGED <<call, agg, hashseed, cli, thr>>

\* the row is in the table and the trace in the figure; next iteration
NextIteration ==
    /\ dash.pc = "simulated"
    /\ dash' = NoDash
    /\ UNCHANGED <<rng, call, agg, hashseed, cli, thr>>

InitDash ==
    /\ rng \in RngStates
    /\ call = NoCall
    /\ agg = NoAgg
    /\ hashseed \in HashSeeds
    /\ dash = NoDash
    /\ cli = NoCli
    /\ thr = NoThreads

NextDash ==
    \/ Seed
    \/ Simulate
    \/ NextIteration

SpecDash == InitDash /\ [][NextDash]_vars

\* ------------------------------------------------------------------------
\* State machine of the console front-end (simulation.py)
\* ------------------------------------------------------------------------
\* One word of an input line: the text of an integer ("int", its value), of
\* a float ("float", its value in thousandths), "nan", the word "all", or
\* any other word.
IntWord(k) == [kind |-> "int", val |-> k]
FloatWord(x) == [kind |-> "float", val |-> x]
Word(kind) == [kind |-> kind, val |-> 0]

VariationInputs == { IntWord(k) : k \in -1 .. MaxVariations } \cup { Word("abc") }
SelectionWords == { IntWord(k) : k \in {0, 1, 11, 14} } \cup { Word("all"), Word("abc") }
\* the selection lines of at most two words
SelectionInputs == UNION { [1 .. n -> SelectionWords] : n \in 0 .. 2 }
SemesterInputs == { IntWord(k) : k \in {0, 1, 9, 10, 11} } \cup { Word("abc") }
CgpaInputs ==
    { FloatWord(x) : x \in {-1, 0, 2900, 3000, 4000, 4001} }
        \cup { Word("nan"), Word("abc") }

\* the console is at its first prompt; prompt and entry are the prompt last
\* answered and the word it was answered with.  A variable not assigned yet
\* holds 0 (a sequence: <<>>); current_cgpa, not assigned yet, holds
\* Word(None), and after float() the word of the value parsed.
CliStart ==
    [pc |-> "variations", prompt |-> None, entry |-> Word(None),
     message |-> None, variations_per_path |-> 0, future_semesters |-> <<>>,
     selection_input |-> <<>>, selected_paths |-> <<>>, current_semester |-> 0,
     current_cgpa |-> Word(None), steps |-> 0, selected_path_data |-> <<>>,
     path_index |-> 0, variation_index |-> 0, seed_for_variation |-> 0,
     trajectory |-> <<>>, final_cgpas |-> <<>>]

\* int(word) returns: the assignment that follows it is made, also when the
\* test after it then refuses the value
parsed_int(word) == word.kind = "int"

\* float(word) returns, nan included
parsed_float(word) == word.kind \in {"float", "nan"}

\* "variations_per_path = int(variations_input)" and the test that follows:
\* TRUE when the loop is left
variations_accepted(variations_input) ==
    variations_input.kind = "int" /\ variations_input.val >= 1

\* [all_paths[i - 1] for i in indices if 1 <= i <= len(all_paths)], from
\* position k on
RECURSIVE pick(_, _)
pick(indices, k) ==
    IF k > Len(indices) THEN <<>>
    ELSE IF 1 <= indices[k].val /\ indices[k].val <= Len(all_paths)
    THEN <<all_paths[indices[k].val]>> \o pick(indices, k + 1)
    ELSE pick(indices, k + 1)

\* lines 55-69: the paths selected by one input line, and what is printed
selection(selection_input) ==
    IF Len(selection_input) = 1 /\ selection_input[1].kind = "all"
    THEN [selected_paths |-> all_paths, message |-> "we'll include ALL paths"]
    ELSE IF \E k \in 1 .. Len(selection_input) : selection_input[k].kind # "int"
    THEN [selected_paths |-> all_paths,
          message |-> "We couldn't process your selection. Defaulting to all paths."]
    ELSE IF pick(selection_input, 1) = <<>>
    THEN [selected_paths |-> all_paths,
          message |-> "No valid selections. We'll default to all paths."]
    ELSE [selected_paths |-> pick(selection_input, 1), message |-> None]

\* every integer taken for a semester number
semester_accepted_unchecked(semester_input) == semester_input.kind = "int"

semester_accepted(semester_input) ==
    semester_input.kind = "int" /\ 1 <= semester_input.val /\ semester_input.val <= 10

\* float() parses "nan", and no comparison with nan is true
cgpa_accepted(cgpa_input) ==
    cgpa_input.kind = "float" /\ 0 <= cgpa_input.val /\ cgpa_input.val <= 4000

\* the keys of {p: path_styles[p] for p in selected_paths}, in insertion
\* order: a path selected twice is one key
RECURSIVE keys(_, _, _)
keys(acc, selected_paths, k) ==
    IF k > Len(selected_paths) THEN acc
    ELSE IF \E j \in 1 .. Len(acc) : acc[j] = selected_paths[k]
    THEN keys(acc, selected_paths, k + 1)
    ELSE keys(Append(acc, selected_paths[k]), selected_paths, k + 1)

\* (42 + hash(path_name) + variation_index) % (2**32)
seed_for_variation(path_name, variation_index, key) ==
    py_mod(42 + hash(path_name, key) + variation_index, SeedModulus)

ReadVariations ==
    /\ cli.pc = "variations"
    /\ \E variations_input \in VariationInputs :
         cli' = IF variations_accepted(variations_input)
                THEN [cli EXCEPT !.pc = "selection", !.message = None,
                                 !.prompt = "variations", !.entry = variations_input,
                                 !.variations_per_path = variations_input.val]
                ELSE [cli EXCEPT !.message = "that input isn't valid",
                                 !.prompt = "variations", !.entry = variations_input,
                                 !.variations_per_path =
                                     IF parsed_int(variations_input)
                                     THEN variations_input.val ELSE @]
    /\ UNCHANGED <<rng, call, agg, hashseed, dash, thr>>

ReadSelection ==
    /\ cli.pc = "selection"
    /\ \E selection_input \in SelectionInputs :
         \E chosen \in { selection(selection_input) } :
            cli' = [cli EXCEPT !.pc = "semester", !.message = chosen.message,
                               !.selection_input = selection_input,
                               !.selected_paths = chosen.selected_paths]
    /\ UNCHANGED <<rng, call, agg, hashseed, dash, thr>>

ReadSemester ==
    /\ cli.pc = "semester"
    /\ \E semester_input \in SemesterInputs :
         cli' = IF semester_accepted(semester_input)
                THEN [cli EXCEPT !.pc = "cgpa", !.message = None,
                                 !.prompt = "semester", !.entry = semester_input,
                                 !.current_semester = semester_input.val]
                ELSE [cli EXCEPT !.message = "not a valid semester number",
                                 !.prompt = "semester", !.entry = semester_input,
                                 !.current_semester =
                                     IF parsed_int(semester_input)
                                     THEN semester_input.val ELSE @]
    /\ UNCHANGED <<rng, call, agg, hashseed, dash, thr>>

\* np.arange(current_semester, current_semester + steps)
arange(from, to) == [k \in 1 .. Max(to - from, 0) |-> from + k - 1]

\* lines 129-132
steps_from(current_semester) ==
    IF current_semester >= 10 THEN 1 ELSE 10 - current_semester + 1

\* the last prompt; then lines 127-140 up to the head of the loops
ReadCgpa ==
    /\ cli.pc = "cgpa"
    /\ \E cgpa_input \in CgpaInputs :
         cli' = IF cgpa_accepted(cgpa_input)
                THEN [cli EXCEPT !.pc = "simulate", !.message = None,
                                 !.prompt = "cgpa", !.entry = cgpa_input,
                                 !.current_cgpa = cgpa_input,
                                 !.selected_path_data = keys(<<>>, cli.selected_paths, 1),
                                 !.steps = steps_from(cli.current_semester),
                                 !.future_semesters =
                                     arange(cli.current_semester,
                                            cli.current_semester
                                                + steps_from(cli.current_semester)),
                                 !.path_index = 1, !.variation_index = 0]
                ELSE [cli EXCEPT !.message = "CGPA must be between 0.0 and 4.0",
                                 !.prompt = "cgpa", !.entry = cgpa_input,
                                 !.current_cgpa =
                                     IF parsed_float(cgpa_input)
                                     THEN cgpa_input ELSE @]
    /\ UNCHANGED <<rng, call, agg, hashseed, dash, thr>>

\* the head of one iteration of "for variation_index in
\* range(variations_per_path)": the seed, and the seeding that opens the
\* generator called with it
SeedVariation ==
    /\ cli.pc = "simulate"
    /\ cli.path_index <= Len(cli.selected_path_data)
    /\ \E seed \in { seed_for_variation(cli.selected_path_data[cli.path_index],
                                        cli.variation_index, hashseed) } :
          /\ rng' = Seeding(rng, seed)
          /\ cli' = [cli EXCEPT !.pc = "generate", !.seed_for_variation = seed]
    /\ UNCHANGED <<call, agg, hashseed, dash, thr>>

\* the rest of the iteration: the generator's loop and the row kept for
\* the table
Trajectory ==
    /\ cli.pc = "generate"
    /\ \E path_name \in { cli.selected_path_data[cli.path_index] } :
       \E r \in { float_generate(path_map(path_name), FromDecimal(cli.current_cgpa.val),
                                 cli.steps, cli.seed_for_variation, rng) } :
          /\ rng' = r.g
          /\ cli' = [cli EXCEPT
                       !.pc = "simulate",
                       !.trajectory = r.traj,
                       !.final_cgpas =
                           Append(@, <<path_name, cli.variation_index + 1,
                                       r.traj[Len(r.traj)]>>),
                       !.variation_index =
                           IF @ + 1 < cli.variations_per_path THEN @ + 1 ELSE 0,
                       !.path_index =
                           IF cli.variation_index + 1 < cli.variations_per_path
                           THEN @ ELSE @ + 1]
    /\ UNCHANGED <<call, agg, hashseed, dash, thr>>

\* the loops are over: the figure and the table are shown, the program ends
Report ==
    /\ cli.pc = "simulate"
    /\ cli.path_index > Len(cli.selected_path_data)
    /\ cli' = [cli EXCEPT !.pc = "done",
                          !.message = [k \in 1 .. Len(cli.final_cgpas) |->
                                          category_msg(Thousandths(cli.final_cgpas[k][3]))]]
    /\ UNCHANGED <<rng, call, agg, hashseed, dash, thr>>

InitCli ==
    /\ rng \in RngStates
    /\ call = NoCall
    /\ agg = NoAgg
    /\ hashseed \in HashSeeds
    /\ dash = NoDash
    /\ cli = CliStart
    /\ thr = NoThreads

NextCli ==
    \/ ReadVariations
    \/ ReadSelection
    \/ ReadSemester
    \/ ReadCgpa
    \/ SeedVariation
    \/ Trajectory
    \/ Report

SpecCli == InitCli /\ [][NextCli]_vars

\* ------------------------------------------------------------------------
\* State machine of generator calls in progress, statement by statement
\* ------------------------------------------------------------------------
\* A thread is one call fn(start, steps=steps, seed=seed).  Its steps are the
\* calls of the generator on the random source: the seeding, and each draw
\* (one per iteration of the loop; two in generate_up_down, the direction
\* and then the size of the step).  All threads work on the one np.random
\* source.  direction is 0 until the direction of the iteration is drawn.
Thread(fn, start, steps, seed) ==
    [fn |-> fn, start |-> start, steps |-> steps, seed |-> seed,
     pc |-> "seed", i |-> 0, direction |-> 0, nxt |-> 0, traj |-> <<>>]

\* starts of a single call: inside and outside [2.0, 4.0]
WalkStarts == {-500, 1500, 3000, 4000, 5000}
WalkStepCounts == {0, 1, 10}
WalkSeeds == {NoSeed, 42}

\* the seeded calls that run side by side
ConcStepCounts == {3}
ConcSeeds == {3, 42}

\* "if seed is not None: np.random.seed(seed)" and "traj = [start]"
SeedSource ==
    \E t \in DOMAIN thr :
        /\ thr[t].pc = "seed"
        /\ rng' = Seeding(rng, thr[t].seed)
        /\ thr' = [thr EXCEPT ![t].pc = "loop", ![t].i = 1,
                              ![t].traj = <<thr[t].start>>]
        /\ UNCHANGED <<call, agg, hashseed, dash, cli>>

\* the first draw of an iteration of generate_up_down
Direction ==
    \E t \in DOMAIN thr :
        /\ thr[t].pc = "loop"
        /\ thr[t].i < thr[t].steps
        /\ thr[t].fn = "generate_up_down"
        /\ thr[t].direction = 0
        /\ \E d \in { up_down_direction(rng) } :
             /\ rng' = d.g
             /\ thr' = [thr EXCEPT ![t].direction = d.direction]
        /\ UNCHANGED <<call, agg, hashseed, dash, cli>>

\* the draw that completes an iteration of "for i in range(1, steps)", and
\* the append
Iterate ==
    \E t \in DOMAIN thr :
        /\ thr[t].pc = "loop"
        /\ thr[t].i < thr[t].steps
        /\ thr[t].fn = "generate_up_down" => thr[t].direction # 0
        /\ \E c \in { IF thr[t].fn = "generate_up_down"
                      THEN up_down_nxt(thr[t].traj[Len(thr[t].traj)],
                                       thr[t].direction, rng)
                      ELSE Nxt(thr[t].fn, thr[t].traj[Len(thr[t].traj)],
                               thr[t].i, rng) } :
             /\ rng' = c.g
             /\ thr' = [thr EXCEPT ![t].nxt = c.nxt,
                                   ![t].direction = 0,
                                   ![t].traj = Append(@, Clamp(c.nxt)),
                                   ![t].i = @ + 1]
        /\ UNCHANGED <<call, agg, hashseed, dash, cli>>

\* "return traj"
Return ==
    \E t \in DOMAIN thr :
        /\ thr[t].pc = "loop"
        /\ thr[t].i >= thr[t].steps
        /\ thr' = [thr EXCEPT ![t].pc = "done"]
        /\ UNCHANGED <<rng, call, agg, hashseed, dash, cli>>

NextThr ==
    \/ SeedSource
    \/ Direction
    \/ Iterate
    \/ Return

\* one call on its own
InitWalk ==
    /\ rng \in RngStates
    /\ call = NoCall
    /\ agg = NoAgg
    /\ hashseed = 0
    /\ dash = NoDash
    /\ cli = NoCli
    /\ \E fn \in Generators, start \in WalkStarts, steps \in WalkStepCounts,
          seed \in WalkSeeds :
         thr = <<Thread(fn, start, steps, seed)>>

SpecWalk == InitWalk /\ [][NextThr]_vars

\* two seeded calls of different (generator, seed) side by side
InitConc ==
    /\ rng \in RngStates
    /\ call = NoCall
    /\ agg = NoAgg
    /\ hashseed = 0
    /\ dash = NoDash
    /\ cli = NoCli
    /\ \E fn1 \in Generators, fn2 \in Generators, steps \in ConcStepCounts,
          seed1 \in ConcSeeds, seed2 \in ConcSeeds :
         /\ <<fn1, seed1>> # <<fn2, seed2>>
         /\ thr = <<Thread(fn1, 3000, steps, seed1), Thread(fn2, 3000, steps, seed2)>>

SpecConc == InitConc /\ [][NextThr]_vars

\* ------------------------------------------------------------------------
\* Properties of the generators, under SpecGen
\* ------------------------------------------------------------------------
Returned == call # NoCall
InRange(x) == 2000 <= x /\ x <= 4000

\* C1: a seeded call returns the same sequence whatever state the shared
\* source was left in by the calls before it: the sequence returned by the
\* call that ran equals the one the same call returns from every other
\* state of the source.
C1_SeededDeterministic ==
    (Returned /\ call.seed # NoSeed) =>
        \A g0 \in RngStates :
            generate(call.fn, call.start, call.steps, call.seed, g0).traj = call.traj

\* a seeded 10-step call has returned, the source was not in the seed's
\* state when it began, and its draws moved the value
C1_Witness ==
    /\ Returned /\ call.seed # NoSeed /\ call.steps = 10
    /\ call.before # SeedState(call.seed)
    /\ call.draws >= 9
    /\ call.traj[2] # call.traj[1]

\* C2 as stated: every element of every returned sequence (steps >= 1) lies
\* in [2.0, 4.0].
C2_AllElementsInRange ==
    (Returned /\ call.steps >= 1) =>
        \A i \in 1 .. Len(call.traj) : InRange(call.traj[i])

\* C2 amended: every element of a returned sequence (steps >= 1) lies in
\* [2.0, 4.0], except that the first element is the start value as given,
\* also when that start is outside the interval.
C2_InRangeButStart ==
    (Returned /\ call.steps >= 1) =>
        \A i \in 1 .. Len(call.traj) :
            \/ InRange(call.traj[i])
            \/ i = 1 /\ call.traj[1] = call.start /\ ~InRange(call.start)

\* consistent_improvement (every delta positive) called at the ceiling: the
\* candidate is above 4.0 and the clamp holds it there
C2_Witness ==
    /\ Returned /\ call.fn = "generate_consistent_improvement"
    /\ call.steps = 10 /\ call.start = 4000
    /\ call.traj[10] = 4000

\* C3: for steps >= 1 the returned sequence has exactly `steps` elements and
\* its first element is `start`.
C3_LengthAndFirst ==
    (Returned /\ call.steps >= 1) =>
        /\ Len(call.traj) = call.steps
        /\ call.traj[1] = call.start

C3_Witness ==
    /\ Returned /\ call.steps = 10 /\ Len(call.traj) = 10
    /\ call.start = 1500 /\ call.traj[1] = 1500

\* C4: a call with steps = 1 returns [start] and draws nothing: the source
\* is left in the seed's state (seeded call) or untouched (unseeded call).
C4_SingleStepNoDraw ==
    (Returned /\ call.steps = 1) =>
        /\ call.traj = <<call.start>>
        /\ call.draws = 0
        /\ rng = IF call.seed # NoSeed THEN SeedState(call.seed) ELSE call.before

C4_Witness ==
    /\ Returned /\ call.steps = 1 /\ call.seed = 42
    /\ call.before # SeedState(42) /\ rng = SeedState(42)
    /\ call.traj = <<call.start>>

\* C5 as stated: a call with steps < 1 is rejected with an error and returns
\* no sequence.
C5_InvalidStepsRejected ==
    (Returned /\ call.steps < 1) => (call.outcome = "error" /\ call.traj = <<>>)

\* ------------------------------------------------------------------------
\* Properties of the aggregator, under SpecAgg
\* ------------------------------------------------------------------------
Categorized == agg.op = "categorize_cgpa"
Counted == agg.op = "compute_category_counts"
Summarized == agg.op = "summarize_statistics"

\* C6: categorize_cgpa returns exactly one of the six labels, by the
\* lower-inclusive thresholds 2.0, 3.0, 3.5, 3.6, 3.8; 3.55 is Strong, 3.6 is
\* Dean's List Range, 4.0 is Near Perfection.
C6_CategorizeBins ==
    Categorized =>
        LET x == agg.input[1]
            r == agg.result
        IN /\ r \in Labels
           /\ (r = "Very Low") <=> (x < 2000)
           /\ (r = "Below 3.0") <=> (2000 <= x /\ x < 3000)
           /\ (r = "Safe Zone") <=> (3000 <= x /\ x < 3500)
           /\ (r = "Strong") <=> (3500 <= x /\ x < 3600)
           /\ (r = "Dean's List Range") <=> (3600 <= x /\ x < 3800)
           /\ (r = "Near Perfection") <=> (x >= 3800)
           /\ (x = 3550) => (r = "Strong")
           /\ (x = 3600) => (r = "Dean's List Range")
           /\ (x = 4000) => (r = "Near Perfection")

\* the boundary 3.6 was categorized, into the upper bin
C6_Witness ==
    Categorized /\ agg.input = <<3600>> /\ agg.result = "Dean's List Range"

\* C7: compute_category_counts maps exactly the six labels, each to the
\* number of input values categorize_cgpa puts in it (0 included), and the
\* counts sum to the number of inputs; [2.9, 3.55, 3.6, 3.95] gives
\* 0, 1, 0, 1, 1, 1.
C7_CountsAllLabels ==
    Counted =>
        LET v == agg.input
            r == agg.result
        IN /\ DOMAIN r = Labels
           /\ \A l \in Labels :
                r[l] = Cardinality({i \in 1 .. Len(v) : categorize_cgpa(v[i]) = l})
           /\ r["Very Low"] + r["Below 3.0"] + r["Safe Zone"] + r["Strong"]
                + r["Dean's List Range"] + r["Near Perfection"] = Len(v)
           /\ (v = <<2900, 3550, 3600, 3950>>) =>
                /\ r["Very Low"] = 0 /\ r["Below 3.0"] = 1 /\ r["Safe Zone"] = 0
                /\ r["Strong"] = 1 /\ r["Dean's List Range"] = 1
                /\ r["Near Perfection"] = 1

\* the spec's example was tallied, two labels keeping the count 0
C7_Witness ==
    /\ Counted /\ agg.input = <<2900, 3550, 3600, 3950>>
    /\ agg.result["Very Low"] = 0 /\ agg.result["Safe Zone"] = 0
    /\ agg.result["Strong"] = 1

C8_Fields ==
    { "count", "mean", "median", "std", "variance", "min", "max",
      "25th_percentile", "75th_percentile", "95ci_lower", "95ci_upper" }

\* C8: summarize_statistics returns the record without any field on the
\* empty collection, and a record with all eleven fields on every other.
C8_EmptyOrAllFields ==
    Summarized =>
        IF Len(agg.input) = 0
        THEN DOMAIN agg.result = {}
        ELSE DOMAIN agg.result = C8_Fields

\* the empty collection was summarized
C8_Witness ==
    Summarized /\ agg.input = <<>> /\ DOMAIN agg.result = {}

\* C9 as stated: for [x], count = 1, mean = median = min = max = x, std and
\* variance are 0 or explicitly marked undefined (here: left out of the
\* record), and no confidence bound is an unmarked non-number.
C9_SingleValueDefined ==
    (Summarized /\ Len(agg.input) = 1) =>
        LET x == Dbl(agg.input[1])
            r == agg.result
        IN /\ r["count"] = 1
           /\ r["mean"] = x /\ r["median"] = x /\ r["min"] = x /\ r["max"] = x
           /\ \A f \in {"std", "variance"} :
                f \in DOMAIN r => r[f] = DZero
           /\ \A f \in {"95ci_lower", "95ci_upper"} :
                f \in DOMAIN r => ~DIsNaN(r[f])

\* the k-th smallest value of the collection v, by counting
OrderStat(v, k) ==
    CHOOSE x \in {v[i] : i \in 1 .. Len(v)} :
        /\ Cardinality({i \in 1 .. Len(v) : v[i] < x}) < k
        /\ k <= Cardinality({i \in 1 .. Len(v) : v[i] <= x})

\* the double of a natural k < 2^31
DWhole(k) == Normal(FALSE, <<k % Base, k \div Base>>, 1, 0)

\* the double of num / den, for num in thousandths
DThousandths(num, den) == DOver(DOver(DWhole(num), 1000), den)

\* the double of num / den, for num in millionths: the square of thousandths
DMillionths(num, den) == DOver(DThousandths(num, 1000), den)

\* the doubles x and y differ by at most 2^-40, a rounding of the operations
\* on values of this size being below 2^-50
Roundoff == [neg |-> FALSE, exp |-> -2, mag |-> <<0, 0, 0, 1>>]
Close(x, y) == DLe([DSub(x, y) EXCEPT !.neg = FALSE], Roundoff)

\* the sum of the values v[i], v[i + 1], ..., in thousandths
RECURSIVE SumFrom(_, _)
SumFrom(v, i) == IF i > Len(v) THEN 0 ELSE v[i] + SumFrom(v, i + 1)

\* the float sum of the doubles of the values v, from the left
RECURSIVE FloatSum(_, _)
FloatSum(v, k) == IF k = 0 THEN DZero ELSE DAdd(FloatSum(v, k - 1), Dbl(v[k]))

\* the value interpolated linearly at rank num/4 * (n - 1), times 4
Interpolated4(v, num) ==
    LET n == Len(v)
        k == (num * (n - 1)) \div 4
        f == (num * (n - 1)) % 4
    IN 4 * OrderStat(v, k + 1)
         + f * (OrderStat(v, Min(k + 2, n)) - OrderStat(v, k + 1))

\* p is the float interpolated linearly at rank num/4 * (n - 1) of v: within
\* 2^-40 of the interpolated value, and between the two order statistics
Interpolates(p, v, num) ==
    LET n == Len(v)
        k == (num * (n - 1)) \div 4
    IN /\ Close(p, DThousandths(Interpolated4(v, num), 4))
       /\ DLe(Dbl(OrderStat(v, k + 1)), p)
       /\ DLe(p, Dbl(OrderStat(v, Min(k + 2, n))))

\* C10: on n >= 1 values, count = n, mean is the float sum over n (within
\* 2^-40 of sum / n), min and max are the extreme elements, median is the
\* middle order statistic (the float mean of the two middle ones for even
\* n), the 25th and 75th percentiles interpolate linearly at rank
\* q * (n - 1), and min <= p25 <= median <= p75 <= max; [2.0, 3.0, 4.0]
\* gives 3, 3.0, 3.0, 2.0, 4.0, 2.5, 3.5.
C10_OrderStatistics ==
    (Summarized /\ Len(agg.input) >= 1) =>
        LET v == agg.input
            n == Len(v)
            r == agg.result
        IN /\ r["count"] = n
           /\ r["mean"] = DOver(FloatSum(v, n), n)
           /\ Close(r["mean"], DThousandths(SumFrom(v, 1), n))
           /\ r["min"] = Dbl(OrderStat(v, 1))
           /\ r["max"] = Dbl(OrderStat(v, n))
           /\ IF n % 2 = 1
              THEN r["median"] = Dbl(OrderStat(v, (n + 1) \div 2))
              ELSE r["median"] = DOver(DAdd(Dbl(OrderStat(v, n \div 2)),
                                            Dbl(OrderStat(v, (n \div 2) + 1))), 2)
           /\ Interpolates(r["25th_percentile"], v, 1)
           /\ Interpolates(r["75th_percentile"], v, 3)
           /\ DLe(r["min"], r["25th_percentile"])
           /\ DLe(r["25th_percentile"], r["median"])
           /\ DLe(r["median"], r["75th_percentile"])
           /\ DLe(r["75th_percentile"], r["max"])
           /\ (v = <<2000, 3000, 4000>>) =>
                /\ r["mean"] = Dbl(3000) /\ r["median"] = Dbl(3000)
                /\ r["min"] = Dbl(2000) /\ r["max"] = Dbl(4000)
                /\ r["25th_percentile"] = Dbl(2500)
                /\ r["75th_percentile"] = Dbl(3500)

\* an unsorted collection of four values was summarized: its 25th
\* percentile, 2.55, falls strictly between two of its values, and its
\* median, the float (2.9 + 3.55) / 2, is not the double of 3.225
C10_Witness ==
    /\ Summarized /\ agg.input = <<4000, 1500, 3550, 2900>>
    /\ agg.result["25th_percentile"] = Dbl(2550)
    /\ agg.result["median"] = DOver(DAdd(Dbl(2900), Dbl(3550)), 2)
    /\ agg.result["median"] # Dbl(3225)

RECURSIVE SumSqFrom(_, _)
SumSqFrom(v, i) == IF i > Len(v) THEN 0 ELSE v[i] * v[i] + SumSqFrom(v, i + 1)

\* what C11 says of the record r of the values v, whose bounds are
\* mean -/+ margin, but for the symmetry of the interval
C11_Computed(v, n, r, margin) ==
    /\ Close(r["mean"], DThousandths(SumFrom(v, 1), n))
    /\ Close(r["variance"],
             DMillionths(n * SumSqFrom(v, 1) - SumFrom(v, 1) * SumFrom(v, 1), n * (n - 1)))
    /\ ~r["std"].neg
    /\ Close(DMul(r["std"], r["std"]), r["variance"])
    /\ r["95ci_lower"] = DSub(r["mean"], margin)
    /\ r["95ci_upper"] = DAdd(r["mean"], margin)
    /\ DLe(r["95ci_lower"], r["mean"])
    /\ DLe(r["mean"], r["95ci_upper"])

\* 2 * m, which is exact
Twice(m) == DAdd(m, m)

C11_Margin(r, n) == DMul(Dbl(1960), DDiv(r["std"], math_sqrt(n)))

\* C11 as stated: on n >= 2 values the variance has the divisor n - 1, std
\* is its square root, the bounds are mean -/+ 1.96 * std / sqrt(n) with that
\* same std, 95ci_lower <= mean <= 95ci_upper, and the floats satisfy
\* 95ci_lower + 95ci_upper = 2 * mean.
C11_ExactlySymmetric ==
    (Summarized /\ Len(agg.input) >= 2) =>
        /\ C11_Computed(agg.input, Len(agg.input), agg.result,
                        C11_Margin(agg.result, Len(agg.input)))
        /\ DAdd(agg.result["95ci_lower"], agg.result["95ci_upper"])
             = Twice(agg.result["mean"])

\* C11: on n >= 2 values the variance has the divisor n - 1 (it is, within
\* 2^-40, (n * sum of squares - square of the sum) / (n * (n - 1))), the
\* square of std is the variance within 2^-40, the bounds are the floats
\* mean - 1.96 * (std / sqrt(n)) and mean + 1.96 * (std / sqrt(n)) with that
\* same std and the mean of the record, 95ci_lower <= mean <= 95ci_upper,
\* and 95ci_lower + 95ci_upper is 2 * mean within 2^-40.
C11_SampleVarianceAndInterval ==
    (Summarized /\ Len(agg.input) >= 2) =>
        /\ C11_Computed(agg.input, Len(agg.input), agg.result,
                        C11_Margin(agg.result, Len(agg.input)))
        /\ Close(DAdd(agg.result["95ci_lower"], agg.result["95ci_upper"]),
                 Twice(agg.result["mean"]))

\* [2.0, 3.0] was summarized: variance 0.5, and the bounds 1.52 and 3.48
C11_Witness ==
    /\ Summarized /\ agg.input = <<2000, 3000>>
    /\ agg.result["variance"] = Dbl(500)
    /\ agg.result["95ci_lower"] = Dbl(1520)
    /\ agg.result["95ci_upper"] = Dbl(3480)

Advised == agg.op = "advice"
Messaged == agg.op = "category_msg"
AdviceThresholds == {3000, 3500, 3600, 3800}

\* C16: in the dashboard and in the console, every value that
\* categorize_cgpa puts in the category of the value just advised gets the
\* same text, and at each advice threshold (3.0, 3.5, 3.6, 3.8) the text and
\* the category both change between the value just below and the threshold.
C16_AdviceFollowsCategory ==
    /\ Advised =>
         \A y \in CatValues :
            categorize_cgpa(y) = categorize_cgpa(agg.input[1]) => advice(y) = agg.result
    /\ Messaged =>
         \A y \in CatValues :
            categorize_cgpa(y) = categorize_cgpa(agg.input[1]) => category_msg(y) = agg.result
    /\ (Advised \/ Messaged) =>
         \A t \in AdviceThresholds :
            /\ advice(t - 1) # advice(t)
            /\ category_msg(t - 1) # category_msg(t)
            /\ categorize_cgpa(t - 1) # categorize_cgpa(t)

\* the dashboard advised exactly 3.0, the lowest value of "Safe Zone"
C16_Witness ==
    /\ Advised /\ agg.input = <<3000>>
    /\ categorize_cgpa(3000) = "Safe Zone"
    /\ agg.result = "Strengthen projects/internships."

PerfectionistReturned == Returned /\ call.fn = "generate_perfectionist"

\* C21: from a start in [2.0, 4.0], a Perfectionist trajectory can go down
\* at steps 3 and 6 only, by 0.15 at most and never below 2.0; every other
\* step goes up by 0.08 to 0.15 or ends on the 4.0 ceiling.
C21_PerfectionistSetbacks ==
    (PerfectionistReturned /\ InRange(call.start)) =>
        \A i \in 1 .. (Len(call.traj) - 1) :
            IF i \in {3, 6}
            THEN /\ call.traj[i] - call.traj[i + 1] \in 0 .. 150
                 /\ call.traj[i + 1] >= 2000
            ELSE /\ call.traj[i + 1] >= call.traj[i]
                 /\ \/ call.traj[i + 1] = 4000
                    \/ call.traj[i + 1] - call.traj[i] \in 80 .. 150

\* a run of ten that goes down at step 3 and at step 6 and up, by 0.08 at
\* least, at step 4
C21_Witness ==
    /\ PerfectionistReturned /\ call.start = 3000 /\ Len(call.traj) = 10
    /\ call.traj[4] < call.traj[3]
    /\ call.traj[7] < call.traj[6]
    /\ call.traj[5] - call.traj[4] >= 80

\* ------------------------------------------------------------------------
\* Properties of the dashboard, under SpecDash
\* ------------------------------------------------------------------------
Simulated == dash.pc = "simulated"

\* the exact sum of acc and the first k floats of v
RECURSIVE SumTo(_, _, _)
SumTo(v, k, acc) == IF k = 0 THEN acc ELSE SumTo(v, k - 1, AddFrom(acc, v[k], 1, 0))

\* 2^-45, the room left for the roundings of a fold, scaled by k
Tolerance(k) == MulFrom(Unit(35, Limbs), k, 1, 0)

\* a and b differ by t at most
Near(a, b, t) == FLe(a, AddFrom(b, t, 1, 0)) /\ FLe(b, AddFrom(a, t, 1, 0))

\* C12: the dashboard folds the per-period values left to right, one
\* completed period more per value, from (current CGPA, current semester):
\* the k-th cumulative value is the float (previous one * (current semester
\* + k - 1) + k-th period value) / (current semester + k), which is, up to
\* the rounding of floats (2^-45), (current CGPA * current semester + the
\* first k period values) / (current semester + k); [3.0, 4.0] from 2.0 over
\* 2 gives the float of 7/3 and 2.75.
C12_RunningAverageFold ==
    /\ cumulate(<<>>, FromDecimal(2000), 2, <<FromDecimal(3000), FromDecimal(4000)>>, 1)
           = <<FDiv(FromDecimal(7000), 3), FromDecimal(2750)>>
    /\ Simulated =>
         /\ Len(dash.cgpa_history) = Len(dash.sem_history)
         /\ \A k \in 1 .. Len(dash.cgpa_history) :
              LET prev == IF k = 1 THEN FromDecimal(dash.current_cgpa)
                          ELSE dash.cgpa_history[k - 1]
                  done == dash.current_semester + k - 1
              IN /\ dash.cgpa_history[k]
                      = FDiv(FAdd(FMul(prev, done), dash.sem_history[k]), done + 1)
                 /\ Near(MulFrom(dash.cgpa_history[k], done + 1, 1, 0),
                         SumTo(dash.sem_history, k,
                               MulFrom(FromDecimal(dash.current_cgpa),
                                       dash.current_semester, 1, 0)),
                         Tolerance(done + 1))

\* from 2.0 after 8 semesters, the periods 3.0 and 3.25 were folded: the
\* cumulative values are the float of 19/9 = 2.111... and a greater one
C12_Witness ==
    /\ Simulated
    /\ dash.current_cgpa = 2000 /\ dash.current_semester = 8
    /\ dash.what_if_adjust = 1000
    /\ Len(dash.cgpa_history) = 2
    /\ dash.sem_history[1] = FromDecimal(3000)
    /\ dash.cgpa_history[1] = FDiv(FromDecimal(19000), 9)
    /\ FLess(dash.cgpa_history[1], dash.cgpa_history[2])

\* C13: every per-period value folded into the running average lies in
\* [0.0, 4.0], and it is the generated value shifted by the what-if
\* adjustment wherever that stays inside [0.0, 4.0].
C13_PeriodValuesInRange ==
    Simulated =>
        /\ Len(dash.sem_history) = Len(dash.generated)
        /\ \A k \in 1 .. Len(dash.sem_history) :
             LET shifted == SAdd(Positive(dash.generated[k]),
                                 SignedDecimal(dash.what_if_adjust)) IN
             /\ FLe(FromDecimal(0), dash.sem_history[k])
             /\ FLe(dash.sem_history[k], FromDecimal(4000))
             /\ (~shifted.neg /\ FLe(shifted.mag, FromDecimal(4000))) =>
                    dash.sem_history[k] = shifted.mag

\* a period was cut at the 4.0 ceiling and another at the 0.0 floor
C13_Witness ==
    /\ Simulated
    /\ \/ /\ dash.what_if_adjust = 1000
          /\ \E k \in 1 .. Len(dash.generated) :
               /\ FLess(FromDecimal(3000), dash.generated[k])
               /\ dash.sem_history[k] = FromDecimal(4000)
       \/ /\ dash.what_if_adjust = -1000
          /\ \E k \in 1 .. Len(dash.generated) :
               /\ FLess(dash.generated[k], FromDecimal(1000))
               /\ dash.sem_history[k] = FromDecimal(0)

\* C14: the seed handed to the generator lies in 0 .. 2^32 - 1 (here
\* 0 .. SeedModulus - 1) and is the same for this (path name, variation
\* index) in every run of the program, whatever key str hashing started with.
C14_SeedInRangeAndSameEveryRun ==
    Simulated =>
        /\ dash.seed_val \in 0 .. (SeedModulus - 1)
        /\ \A key \in HashSeeds :
             seed_val(dash.path_name, dash.variation_index, key) = dash.seed_val

\* C23: for every current semester in 1..10 the cumulative history of a
\* trajectory has 10 - current semester entries, as many as there are
\* future semesters (the x series of the plot); at semester 10 it is empty
\* and the final value is the current CGPA unchanged.
C23_HistoryMatchesFutureSemesters ==
    Simulated =>
        /\ Len(dash.cgpa_history) = total_semesters - dash.current_semester
        /\ Len(dash.cgpa_history) = Len(dash.future_semesters)
        /\ dash.current_semester = total_semesters =>
             /\ dash.cgpa_history = <<>>
             /\ dash.final_val = FromDecimal(dash.current_cgpa)

\* a lies between b and c, ends included
Between(a, b, c) == (FLe(b, a) /\ FLe(a, c)) \/ (FLe(c, a) /\ FLe(a, b))

\* a lies between b and c or outside by t at most
BetweenWithin(a, b, c, t) ==
    /\ FLe(b, AddFrom(a, t, 1, 0)) \/ FLe(c, AddFrom(a, t, 1, 0))
    /\ FLe(a, AddFrom(b, t, 1, 0)) \/ FLe(a, AddFrom(c, t, 1, 0))

\* the cumulative value before the k-th
Previous(k) ==
    IF k = 1 THEN FromDecimal(dash.current_cgpa) ELSE dash.cgpa_history[k - 1]

\* C24 as stated: every cumulative value of the fold lies in [0.0, 4.0] and
\* between the cumulative value before it (the current CGPA for the first)
\* and the period value folded in, however many periods were folded.
C24_CumulativeBetween ==
    Simulated =>
        \A k \in 1 .. Len(dash.cgpa_history) :
            /\ FLe(FromDecimal(0), dash.cgpa_history[k])
            /\ FLe(dash.cgpa_history[k], FromDecimal(4000))
            /\ Between(dash.cgpa_history[k], Previous(k), dash.sem_history[k])

\* C24, amended: every cumulative value of the fold lies in [0.0, 4.0], and
\* between the cumulative value before it and the period value folded in up
\* to the rounding of floats: it is outside that interval by 2^-45 at most.
C24_CumulativeBetweenUpToRounding ==
    Simulated =>
        \A k \in 1 .. Len(dash.cgpa_history) :
            /\ FLe(FromDecimal(0), dash.cgpa_history[k])
            /\ FLe(dash.cgpa_history[k], FromDecimal(4000))
            /\ BetweenWithin(dash.cgpa_history[k], Previous(k),
                             dash.sem_history[k], Tolerance(1))

\* at semester 9 the period 3.8 was folded into the CGPA 3.8: the
\* cumulative value, (3.8 * 9 + 3.8) / 10 in floats, is below both
C24_Witness ==
    /\ Simulated
    /\ dash.current_semester = 9 /\ dash.current_cgpa = 3800
    /\ dash.sem_history = <<FromDecimal(3800)>>
    /\ FLess(dash.cgpa_history[1], FromDecimal(3800))
    /\ Thousandths(dash.final_val) = 3799
    /\ dash.cat = "Dean's List Range"

\* ------------------------------------------------------------------------
\* Properties of the console front-end, under SpecCli
\* ------------------------------------------------------------------------
PastSelection == cli.pc \notin {"variations", "selection"}

\* the line read at the selection prompt is the word "all" or a non-empty
\* list of indices that are all in 1 .. 13
ValidSelection(selection_input) ==
    \/ Len(selection_input) = 1 /\ selection_input[1].kind = "all"
    \/ /\ Len(selection_input) >= 1
       /\ \A k \in 1 .. Len(selection_input) :
            /\ selection_input[k].kind = "int"
            /\ 1 <= selection_input[k].val /\ selection_input[k].val <= Len(all_paths)

\* C15: a selection with an index outside 1..13, a non-numeric word or no
\* word at all is rejected: the console never goes past the selection prompt
\* with such a line, neither on a default set of paths nor on the valid
\* part of the line.
C15_InvalidSelectionRejected ==
    PastSelection => ValidSelection(cli.selection_input)

\* a generator has been called: the loop is running or over
Generating == cli.pc \in {"simulate", "generate", "done"}

\* the word answers the prompt with a value the prompt asks for
ValidEntry(prompt, entry) ==
    CASE prompt = "variations" -> entry.kind = "int" /\ entry.val >= 1
      [] prompt = "semester" -> entry.kind = "int" /\ entry.val \in 1 .. 10
      [] prompt = "cgpa" -> entry.kind = "float" /\ entry.val \in 0 .. 4000
      [] OTHER -> TRUE

\* C22: wherever the console calls a generator, it holds a number of
\* variations >= 1, a semester in 1..10 and a CGPA in [0.0, 4.0], the step
\* count is 10 - semester + 1, in 1..10, and every trajectory has that many
\* elements, as many as semesters are plotted; an invalid answer to one of
\* the three prompts leaves the console at that prompt, with nothing of the
\* later stages set (the variable of the prompt holds the refused number
\* when the answer was one).
C22_GenerationAfterValidInputs ==
    /\ Generating =>
         /\ cli.variations_per_path >= 1
         /\ cli.current_semester \in 1 .. 10
         /\ cli.current_cgpa.kind = "float"
         /\ cli.current_cgpa.val \in 0 .. 4000
         /\ cli.steps = 10 - cli.current_semester + 1
         /\ cli.steps \in 1 .. 10
         /\ Len(cli.future_semesters) = cli.steps
         /\ cli.final_cgpas # <<>> =>
              /\ Len(cli.trajectory) = cli.steps
              /\ cli.trajectory[1] = FromDecimal(cli.current_cgpa.val)
    /\ ~ValidEntry(cli.prompt, cli.entry) =>
         /\ cli.pc = cli.prompt
         /\ cli.message # None
         /\ cli.pc = "variations" =>
              /\ cli.selection_input = <<>> /\ cli.selected_paths = <<>>
              /\ parsed_int(cli.entry) => cli.variations_per_path = cli.entry.val
         /\ cli.pc \in {"variations", "semester"} =>
              /\ cli.current_cgpa = Word(None)
              /\ cli.pc = "semester" /\ parsed_int(cli.entry) =>
                   cli.current_semester = cli.entry.val
         /\ cli.final_cgpas = <<>> /\ cli.steps = 0 /\ cli.trajectory = <<>>
         /\ cli.pc = "cgpa" /\ parsed_float(cli.entry) =>
              cli.current_cgpa = cli.entry

\* a generator was called for semester 9 with two steps, after the CGPA
\* prompt had been answered
C22_Witness ==
    /\ cli.pc = "simulate" /\ cli.final_cgpas # <<>>
    /\ cli.current_semester = 9 /\ cli.steps = 2
    /\ Len(cli.trajectory) = 2
    /\ cli.prompt = "cgpa" /\ cli.entry = FloatWord(3000)

\* ------------------------------------------------------------------------
\* Properties of calls in progress, under SpecConc and SpecWalk
\* ------------------------------------------------------------------------
\* what the call of thread t returns when nothing else touches the source
Alone(t) == generate(thr[t].fn, thr[t].start, thr[t].steps, thr[t].seed, 0).traj

\* C17: of two seeded calls whose seeding and draws interleave, each
\* returns exactly the sequence it returns when run alone.
C17_InterleavedCallsUnaffected ==
    \A t \in DOMAIN thr : thr[t].pc = "done" => thr[t].traj = Alone(t)

\* a single call, seeded, returns what generate computes for it
WalkIsGenerate ==
    \A t \in DOMAIN thr :
        (thr[t].pc = "done" /\ thr[t].seed # NoSeed) => thr[t].traj = Alone(t)

\* C18: whatever the start, the first element is the start as given, every
\* later element lies in [2.0, 4.0], and the last one is the candidate of
\* the last step cut to [2.0, 4.0].
C18_AllButFirstClamped ==
    \A t \in DOMAIN thr :
        thr[t].pc # "seed" =>
            LET traj == thr[t].traj
                n == Len(traj)
            IN /\ traj[1] = thr[t].start
               /\ \A k \in 2 .. n : 2000 <= traj[k] /\ traj[k] <= 4000
               /\ n >= 2 =>
                    /\ thr[t].nxt < 2000 => traj[n] = 2000
                    /\ thr[t].nxt > 4000 => traj[n] = 4000
                    /\ (2000 <= thr[t].nxt /\ thr[t].nxt <= 4000) => traj[n] = thr[t].nxt

\* from 5.0 the first element stays 5.0, the second is cut to 4.0, and the
\* third, below 4.0, was stepped from the cut value
C18_Witness ==
    /\ Len(thr) = 1
    /\ thr[1].start = 5000
    /\ Len(thr[1].traj) >= 3
    /\ thr[1].traj[1] = 5000
    /\ thr[1].traj[2] = 4000
    /\ thr[1].traj[3] < 4000

\* ------------------------------------------------------------------------
\* Properties of single scenarios, under SpecGen
\* ------------------------------------------------------------------------
\* the element at position k + 1 is not above the one at k, and is lower by
\* 0.05 to 0.10 unless it sits on the 2.0 floor
Declines(traj, k) ==
    /\ traj[k + 1] <= traj[k]
    /\ \/ traj[k + 1] = 2000
       \/ traj[k] - traj[k + 1] \in 50 .. 100

NoStudyReturned == Returned /\ call.fn = "generate_no_study"

\* C19 as stated: for every start from 0.0 to 4.0, every element of a No
\* Study trajectory is at most its predecessor, and lower by 0.05 to 0.10
\* unless the 2.0 floor is hit.
C19_NoStudyDeclinesFromAnyStart ==
    (NoStudyReturned /\ call.start \in 0 .. 4000) =>
        \A k \in 1 .. (Len(call.traj) - 1) : Declines(call.traj, k)

\* C19, amended: that holds for every start in [2.0, 4.0]; from a start
\* below 2.0 the second element is 2.0, above the start, and the decline
\* holds from the second element on.
C19_NoStudyDeclinesFromInRangeStart ==
    NoStudyReturned =>
        /\ InRange(call.start) =>
              \A k \in 1 .. (Len(call.traj) - 1) : Declines(call.traj, k)
        /\ (0 <= call.start /\ call.start < 2000) =>
              /\ Len(call.traj) >= 2 => call.traj[2] = 2000
              /\ \A k \in 2 .. (Len(call.traj) - 1) : Declines(call.traj, k)

\* ten elements from 4.0, each strictly below the one before
C19_Witness ==
    /\ NoStudyReturned /\ call.start = 4000 /\ Len(call.traj) = 10
    /\ \A k \in 1 .. 9 : call.traj[k + 1] < call.traj[k]
    /\ call.traj[10] > 2000

\* the step with loop index i appends the element at position i + 1
Falls(traj, i) == traj[i + 1] <= traj[i]
Rises(traj, i) == traj[i + 1] >= traj[i]
RisesStrictly(traj, i) == traj[i + 1] > traj[i] \/ traj[i + 1] = 4000

\* C20: from a start in [2.0, 4.0], Downfall & Recovery and Triumph Over
\* Adversity do not rise at steps 1-3 and do not fall at any step >= 4, Late
\* Bloomer does not rise at steps 1-4 and does not fall at any step >= 5; the
\* rises of Triumph Over Adversity (0.12 at least) and of Late Bloomer (0.15
\* at least) are strict below the 4.0 ceiling from that very step on.
C20_DipThenRisePhases ==
    (Returned /\ InRange(call.start)) =>
        \A i \in 1 .. (Len(call.traj) - 1) :
            /\ call.fn = "generate_downfall_recovery" =>
                 IF i < 4 THEN Falls(call.traj, i) ELSE Rises(call.traj, i)
            /\ call.fn = "generate_triumph_over_adversity" =>
                 IF i < 4 THEN Falls(call.traj, i) ELSE RisesStrictly(call.traj, i)
            /\ call.fn = "generate_late_bloomer" =>
                 IF i < 5 THEN Falls(call.traj, i) ELSE RisesStrictly(call.traj, i)

\* a Downfall & Recovery run that still falls at step 3 and already rises
\* at step 4
C20_Witness ==
    /\ Returned /\ call.fn = "generate_downfall_recovery"
    /\ call.start = 3000 /\ Len(call.traj) = 10
    /\ call.traj[4] < call.traj[3]
    /\ call.traj[5] > call.traj[4]

=============================================================================
